---- MODULE Spec2Model ----
(***************************************************************************)
(* The scheduler of cargo-distbuild (src/src/scheduler/mod.rs) as a state  *)
(* machine: the worker registry and the job table behind one RwLock, the   *)
(* SubmitJob handler with its assignment pass, the dispatch tasks the pass *)
(* spawns, and the RegisterWorker, Heartbeat, ReportJobResult and          *)
(* ListWorkers handlers.  Every step that runs under the write lock is one *)
(* action; a handler that releases the lock and takes it again is several. *)
(* The callers of the RPCs are left open: any client may call any RPC with *)
(* any argument of the small input sets below.  SpecR adds the read-only   *)
(* GetJobStatus and ListJobs RPCs; SpecW runs the worker processes of      *)
(* src/src/worker/mod.rs (run, register, heartbeat loop) against the       *)
(* registry.                                                               *)
(* SpecC is the content-addressed store of src/src/cas/mod.rs with its     *)
(* callers, SpecX the workers executing ExecuteJob requests, SpecH one     *)
(* worker executing jobs while its heartbeat loop runs, and SpecP the      *)
(* wrapper's poll_for_completion against the job table.                    *)
(* SpecU is the scheduler with clients that never reuse a job_id, SpecS    *)
(* the scheduler with one worker process and one job end to end, and SpecL *)
(* that system at the grain of the two RwLocks: every state.write() and    *)
(* state.read() that is granted, and every guard that is dropped, is a     *)
(* step of its own.                                                        *)
(*                                                                         *)
(* Time is chrono::Utc::now().timestamp(): whole seconds.  A handler's     *)
(* clock read and the lock acquisition that follows it on the next source  *)
(* line are taken to happen in the same second.                            *)
(***************************************************************************)
EXTENDS Integers, FiniteSets, Sequences, Bags, TLC

\* ------------------------------------------------------------------ bounds
\* The clock runs from 0 to MaxTime in steps of TickStep seconds.
MaxTime == 20
TickStep == 10
\* The clients and workers make at most MaxCalls RPC calls in a behaviour.
MaxCalls == 4
\* Heartbeat carries an active_jobs value in 0..MaxReported.
MaxReported == 1
\* ListJobs carries a limit in 0..MaxLimit.
MaxLimit == 2
\* A blob has 1..MaxBlobLen bytes.
MaxBlobLen == 2
\* At most MaxExecs ExecuteJob RPCs are in flight at a time.
MaxExecs == 2

\* ------------------------------------------------------- program constants
\* The liveness window of the assignment pass and of ListWorkers, in seconds.
T_dead == 10
\* The worker's heartbeat_loop sends a Heartbeat every H_beat seconds.
H_beat == 10
\* poll_for_completion polls at most PollLimit times.
PollLimit == 60

\* ------------------------------------------------------------- input sets
JobIds == {"j1", "j2"}
WorkerIds == {"w1", "w2"}
Capacities == {1, 2}
Hashes == {"h1", "h2"}
InputHashes == {"in1"}
JobTypes == {"t"}
Addresses == {"a1"}
\* The labels map of a RegisterWorker request and the metadata map of a
\* SubmitJob request: maps from string to string.
LabelMaps == {[k \in {"os"} |-> "linux"]}
MetadataMaps == {[k \in {"crate_name"} |-> "c"]}
\* The byte values of a blob, the blobs, and the callers of the CAS.
Bytes == {1, 2}
Blobs == UNION {[1..n -> Bytes] : n \in 1..MaxBlobLen}
CasClients == {"c1", "c2"}
\* The input blobs of the jobs: one that passes the worker's validation and
\* one that does not.
InputBlobs == {<<1>>, <<2>>}
\* The slots of the ExecuteJob RPCs in flight.
ExecIds == 1..MaxExecs

\* Option::None of assigned_worker, output_hash and completed_at.
NoWorker == "none"
NoHash == "none"
NoTime == -1

\* JobStatusEnum
Pending == "PENDING"
Assigned == "ASSIGNED"
Running == "RUNNING"
Completed == "COMPLETED"
Failed == "FAILED"
JobStatusEnum == {Pending, Assigned, Running, Completed, Failed}
Terminal == {Completed, Failed}

\* impl From<JobStatusEnum> for i32
StatusToI32(s) ==
    CASE s = Pending -> 0
      [] s = Assigned -> 1
      [] s = Running -> 2
      [] s = Completed -> 3
      [] s = Failed -> 4

VARIABLES
    now,        \* the wall clock, in seconds
    workers,    \* SchedulerState.workers: worker_id -> WorkerMetadata
    jobs,       \* SchedulerState.jobs: job_id -> JobMetadata
    submits,    \* per job_id, the SubmitJob handler in flight for it
    ncalls,     \* RPC calls so far
    tasks,      \* the spawned dispatch tasks: a bag of what each task captured, and its pc
    procs,      \* per worker_id, the worker process: run() and its heartbeat loop
    files,      \* the CAS directory: path -> the bytes of the file at that path
    putops,     \* per CAS client, the Cas::put call it is in
    execs,      \* the ExecuteJob RPCs in flight at the workers, one per slot
    poll,       \* the wrapper's poll_for_completion call
    lk,         \* the scheduler's and the worker's RwLock: who holds them
    last        \* the step that led to this state: the RPC, its argument, its reply

vars == <<now, workers, jobs, submits, ncalls, tasks, procs, files, putops, execs,
          poll, lk, last>>

\* ------------------------------------------------------------------ helpers
EmptyMap == [x \in {} |-> x]

Put(f, k, v) == [x \in DOMAIN f \cup {k} |-> IF x = k THEN v ELSE f[x]]

Restrict(f, S) == [x \in S |-> f[x]]

Min(a, b) == IF a < b THEN a ELSE b

\* A faulty variant: a plain subtraction, which goes below zero.
SaturatingSubMut(n) == n - 1
\* u32::saturating_sub(1)
SaturatingSub(n) == IF n >= 1 THEN n - 1 ELSE 0

\* The record kept in last: the operation, the job or worker it names, its
\* reply, for ReportJobResult the success flag and output_hash of the request
\* and the status the job had, and the number a request carries (the capacity
\* of RegisterWorker, the active_jobs of Heartbeat, the limit of ListJobs) or,
\* for ListWorkers, the number of workers it removed; for a CAS call, its
\* digest (hash) and the bytes given to put or returned by get (data).
Step(op, id, code, success, prev) ==
    [op |-> op, id |-> id, code |-> code, success |-> success, hash |-> "-",
     prev |-> prev, n |-> 0, data |-> <<>>]

\* A faulty variant: the capacity lands in active_jobs too.
NewWorkerMut(w, addr, cap, labels, t) ==
    [worker_id |-> w, address |-> addr, capacity |-> cap, active_jobs |-> cap,
     last_heartbeat |-> t, labels |-> labels]
\* WorkerMetadata as RegisterWorker builds it
NewWorker(w, addr, cap, labels, t) ==
    [worker_id |-> w, address |-> addr, capacity |-> cap, active_jobs |-> 0,
     last_heartbeat |-> t, labels |-> labels]

\* A faulty variant: the new record starts ASSIGNED.
NewJobMut(j, input, type, meta, t) ==
    [job_id |-> j, input_hash |-> input, output_hash |-> NoHash, job_type |-> type,
     status |-> Assigned, assigned_worker |-> NoWorker, submitted_at |-> t,
     completed_at |-> NoTime, metadata |-> meta]
\* JobMetadata as SubmitJob builds it
NewJob(j, input, type, meta, t) ==
    [job_id |-> j, input_hash |-> input, output_hash |-> NoHash, job_type |-> type,
     status |-> Pending, assigned_worker |-> NoWorker, submitted_at |-> t,
     completed_at |-> NoTime, metadata |-> meta]

\* A faulty variant: a heartbeat of exactly T_dead seconds is already too old.
OfflineMut(ws, t) == {w \in DOMAIN ws : t - ws[w].last_heartbeat >= T_dead}
\* The workers whose heartbeat is too old at time t: they are removed.
Offline(ws, t) == {w \in DOMAIN ws : t - ws[w].last_heartbeat > T_dead}

\* The registry without its offline workers.
Evict(ws, t) == Restrict(ws, DOMAIN ws \ Offline(ws, t))

\* A faulty variant: a job that is ASSIGNED is paired again.
PendingJobsMut(js) == {j \in DOMAIN js : js[j].status \in {Pending, Assigned}}
\* The jobs an assignment pass may pair.
PendingJobs(js) == {j \in DOMAIN js : js[j].status = Pending}

\* A faulty variant: a heartbeat of exactly T_dead seconds still counts as healthy.
AvailableWorkersMut(ws, t) ==
    {w \in DOMAIN ws : ws[w].active_jobs < ws[w].capacity
                       /\ t - ws[w].last_heartbeat <= T_dead}
\* The workers an assignment pass may pair: healthy and with capacity.
AvailableWorkers(ws, t) ==
    {w \in DOMAIN ws : ws[w].active_jobs < ws[w].capacity
                       /\ t - ws[w].last_heartbeat < T_dead}

Injective(f) == \A a, b \in DOMAIN f : f[a] = f[b] => a = b

\* A faulty variant: a pairing may stop early, or pair nothing.
ZipPairingsMut(P, A) ==
    {f \in UNION {[S -> A] : S \in SUBSET P} : Injective(f)}
\* pending_jobs.iter().zip(available_workers.iter()): both lists come from
\* HashMap iteration, whose order is arbitrary, so the zip is any one-to-one
\* pairing of min(|P|, |A|) pending jobs with available workers.
ZipPairings(P, A) ==
    {f \in UNION {[S -> A] : S \in SUBSET P} :
        /\ Injective(f)
        /\ Cardinality(DOMAIN f) = Min(Cardinality(P), Cardinality(A))}

\* The jobs of js in ASSIGNED or RUNNING whose assigned_worker is w.
ActiveOn(js, w) ==
    {j \in DOMAIN js : js[j].status \in {Assigned, Running} /\ js[j].assigned_worker = w}

\* An ExecuteJob slot with no RPC in it.
IdleExec ==
    [pc |-> "idle", worker |-> "-", job_id |-> "-", input_hash |-> "-",
     job_type |-> "-", input |-> <<>>, ok |-> FALSE, output_hash |-> "", sent |-> 0]

\* ---------------------------------------------------------------- Init
Init ==
    /\ now = 0
    /\ workers = EmptyMap
    /\ jobs = EmptyMap
    /\ submits = [j \in JobIds |-> [pc |-> "idle", eligAtCall |-> {}]]
    /\ ncalls = 0
    /\ tasks = EmptyBag
    /\ procs = [w \in WorkerIds |-> [main |-> "off", hb |-> "off", capacity |-> 0,
                                    active_jobs |-> {}]]
    /\ files = EmptyMap
    /\ putops = [c \in CasClients |->
                    [pc |-> "idle", data |-> <<>>, off |-> 0, peer |-> FALSE]]
    /\ execs = [e \in ExecIds |-> IdleExec]
    /\ lk = [slock |-> "free", wreaders |-> {}, wwriter |-> 0, hbn |-> 0]
    /\ poll = [pc |-> "idle", job_id |-> "-", attempt |-> 0, result |-> "-",
               output_hash |-> ""]
    /\ last = Step("Init", "-", "OK", TRUE, "-")

\* The clock advances.
Tick ==
    /\ now + TickStep <= MaxTime
    /\ now' = now + TickStep
    /\ last' = Step("Tick", "-", "OK", TRUE, "-")
    /\ UNCHANGED <<workers, jobs, submits, ncalls, tasks, procs, files, putops, execs, poll, lk>>

\* RegisterWorker: insert or overwrite the record; never fails.
RegisterWorker(w, addr, cap, labels) ==
    /\ ncalls < MaxCalls
    /\ ncalls' = ncalls + 1
    /\ workers' = Put(workers, w, NewWorker(w, addr, cap, labels, now))
    /\ last' = [Step("RegisterWorker", w, "OK", TRUE, "-") EXCEPT !.n = cap]
    /\ UNCHANGED <<now, jobs, submits, tasks, procs, files, putops, execs, poll, lk>>

\* A faulty variant: a heartbeat of an unknown worker creates its record.
HeartbeatedMut(ws, w, n, t) ==
    IF w \in DOMAIN ws
    THEN [ws EXCEPT ![w].last_heartbeat = t, ![w].active_jobs = n]
    ELSE Put(ws, w, [worker_id |-> w, address |-> "a1", capacity |-> 1,
                     active_jobs |-> n, last_heartbeat |-> t,
                     labels |-> EmptyMap])
\* heartbeat: the registry after Heartbeat(w, n) at time t; last writer wins
\* on last_heartbeat and active_jobs, and an unknown worker changes nothing.
Heartbeated(ws, w, n, t) ==
    IF w \in DOMAIN ws
    THEN [ws EXCEPT ![w].last_heartbeat = t, ![w].active_jobs = n]
    ELSE ws

\* heartbeat: the reply, OK or Status::not_found.
HeartbeatCode(ws, w) == IF w \in DOMAIN ws THEN "OK" ELSE "NotFound"

\* Heartbeat
Heartbeat(w, n) ==
    /\ ncalls < MaxCalls
    /\ ncalls' = ncalls + 1
    /\ workers' = Heartbeated(workers, w, n, now)
    /\ last' = [Step("Heartbeat", w, HeartbeatCode(workers, w),
                     w \in DOMAIN workers, "-") EXCEPT !.n = n]
    /\ UNCHANGED <<now, jobs, submits, tasks, procs, files, putops, execs, poll, lk>>

\* SubmitJob, first critical section: insert (or overwrite) the PENDING record.
\* eligAtCall remembers for the handler what the caller saw: the workers with a
\* heartbeat younger than T_dead and a free slot, if no other job was PENDING.
SubmitInsert(j, input, type, meta) ==
    /\ submits[j].pc = "idle"
    /\ ncalls < MaxCalls
    /\ jobs' = Put(jobs, j, NewJob(j, input, type, meta, now))
    /\ submits' = [submits EXCEPT ![j] =
            [pc |-> "inserted",
             eligAtCall |-> IF PendingJobs(jobs) \ {j} = {}
                            THEN {w \in DOMAIN workers :
                                    /\ now - workers[w].last_heartbeat < T_dead
                                    /\ workers[w].active_jobs < workers[w].capacity}
                            ELSE {}]]
    /\ ncalls' = ncalls + 1
    /\ last' = Step("SubmitInsert", j, "OK", TRUE, "-")
    /\ UNCHANGED <<now, workers, tasks, procs, files, putops, execs, poll, lk>>

\* A faulty variant: the pass puts the ASSIGNED jobs it did not pair back in
\* the queue.
AssignedJobsMut(js, m) ==
    [x \in DOMAIN js |->
        IF x \in DOMAIN m
        THEN [js[x] EXCEPT !.status = Assigned, !.assigned_worker = m[x]]
        ELSE IF js[x].status = Assigned
             THEN [js[x] EXCEPT !.status = Pending, !.assigned_worker = NoWorker]
             ELSE js[x]]
\* The job table after the pass has paired the jobs of DOMAIN m.
AssignedJobs(js, m) ==
    [x \in DOMAIN js |->
        IF x \in DOMAIN m
        THEN [js[x] EXCEPT !.status = Assigned, !.assigned_worker = m[x]]
        ELSE js[x]]

\* A faulty variant: the paired workers' active_jobs is left as it was.
LoadedWorkersMut(ws, m) == ws
\* The registry after the pass has paired the workers in the range of m.
\* active_jobs < capacity <= u32::MAX there, so the u32 increment cannot wrap.
LoadedWorkers(ws, m) ==
    [w \in DOMAIN ws |->
        IF \E x \in DOMAIN m : m[x] = w
        THEN [ws[w] EXCEPT !.active_jobs = @ + 1]
        ELSE ws[w]]

\* One dispatch task per assignment, with what the pass copied for it.
SpawnedTasks(js, ws, m) ==
    SetToBag({[job |-> x, input_hash |-> js[x].input_hash, job_type |-> js[x].job_type,
               worker |-> m[x], worker_addr |-> ws[m[x]].address, pc |-> "start"]
              : x \in DOMAIN m})

\* assign_jobs_to_workers: one critical section; the dispatch tasks it spawns
\* run later.
AssignJobsToWorkers ==
    LET ws == Evict(workers, now)
        P == PendingJobs(jobs)
        A == AvailableWorkers(ws, now)
    IN  IF P = {} \/ A = {}
        THEN /\ workers' = ws
             /\ UNCHANGED <<jobs, tasks>>
        ELSE \E m \in ZipPairings(P, A) :
                /\ jobs' = AssignedJobs(jobs, m)
                /\ workers' = LoadedWorkers(ws, m)
                /\ tasks' = tasks (+) SpawnedTasks(jobs, ws, m)

\* SubmitJob, second part: the assignment pass, then the reply success = true.
SubmitAssign(j) ==
    /\ submits[j].pc = "inserted"
    /\ AssignJobsToWorkers
    /\ submits' = [submits EXCEPT ![j] = [pc |-> "idle", eligAtCall |-> {}]]
    /\ last' = Step("SubmitJob", j, "OK", TRUE, "-")
    /\ UNCHANGED <<now, ncalls, procs, files, putops, execs, poll, lk>>

\* dispatch_job_to_worker: the ExecuteJobRequest task t sends to its worker,
\* built from what the pass copied for the task and a new, empty metadata map.
ExecuteJobRequest(t) ==
    [job_id |-> t.job, input_hash |-> t.input_hash, job_type |-> t.job_type,
     metadata |-> EmptyMap]

\* dispatch_job_to_worker, first critical section: the job becomes RUNNING.
DispatchSetRunning(t) ==
    /\ t.pc = "start"
    /\ jobs' = IF t.job \in DOMAIN jobs
               THEN [jobs EXCEPT ![t.job].status = Running]
               ELSE jobs
    /\ tasks' = (tasks (-) SetToBag({t})) (+) SetToBag({[t EXCEPT !.pc = "rpc"]})
    /\ last' = Step("DispatchSetRunning", t.job, "OK", TRUE, "-")
    /\ UNCHANGED <<now, workers, submits, ncalls, procs, files, putops, execs, poll, lk>>

\* A faulty variant: a response with success = true completes the job.
DispatchRpcOkMut(t, ok) ==
    /\ t.pc = "rpc"
    /\ jobs' = IF ok /\ t.job \in DOMAIN jobs
               THEN [jobs EXCEPT ![t.job].status = Completed]
               ELSE jobs
    /\ tasks' = tasks (-) SetToBag({t})
    /\ last' = Step("DispatchRpcOk", t.job, "OK", ok, "-")
    /\ UNCHANGED <<now, workers, submits, ncalls, procs, files, putops, execs, poll, lk>>
\* WorkerClient::connect and execute_job returned Ok: the response, whose
\* success flag is ok, is dropped and the task ends.
DispatchRpcOk(t, ok) ==
    /\ t.pc = "rpc"
    /\ tasks' = tasks (-) SetToBag({t})
    /\ last' = Step("DispatchRpcOk", t.job, "OK", ok, "-")
    /\ UNCHANGED <<now, workers, jobs, submits, ncalls, procs, files, putops, execs, poll, lk>>

\* A faulty variant: a worker that cannot be reached is dropped from the
\* registry.
DispatchRpcErrMut(t) ==
    /\ t.pc = "rpc"
    /\ jobs' = IF t.job \in DOMAIN jobs
               THEN [jobs EXCEPT ![t.job].status = Failed,
                                 ![t.job].completed_at = now]
               ELSE jobs
    /\ workers' = Restrict(workers, DOMAIN workers \ {t.worker})
    /\ tasks' = tasks (-) SetToBag({t})
    /\ last' = Step("DispatchRpcErr", t.job, "Err", FALSE, "-")
    /\ UNCHANGED <<now, submits, ncalls, procs, files, putops, execs, poll, lk>>

\* connect or execute_job returned Err: the spawned task marks the job FAILED
\* and gives the worker's slot back.
DispatchRpcErr(t) ==
    /\ t.pc = "rpc"
    /\ jobs' = IF t.job \in DOMAIN jobs
               THEN [jobs EXCEPT ![t.job].status = Failed,
                                 ![t.job].completed_at = now]
               ELSE jobs
    /\ workers' = IF t.worker \in DOMAIN workers
                  THEN [workers EXCEPT ![t.worker].active_jobs = SaturatingSub(@)]
                  ELSE workers
    /\ tasks' = tasks (-) SetToBag({t})
    /\ last' = Step("DispatchRpcErr", t.job, "Err", FALSE, "-")
    /\ UNCHANGED <<now, submits, ncalls, procs, files, putops, execs, poll, lk>>

\* A faulty variant: a report for an unknown job creates its record.
ReportedJobsMut(js, j, success, h, t) ==
    LET base == IF j \in DOMAIN js THEN js ELSE Put(js, j, NewJob(j, "in1", "t", EmptyMap, t))
    IN  IF success
        THEN [base EXCEPT ![j].status = Completed,
                          ![j].output_hash = h,
                          ![j].completed_at = t]
        ELSE [base EXCEPT ![j].status = Failed,
                          ![j].completed_at = t]
\* A faulty variant: a reported job is dropped from the table.
ReportedJobsGc(js, j, success, h, t) == Restrict(js, DOMAIN js \ {j})
\* report_job_result: the job table after the report (unchanged on NotFound).
ReportedJobs(js, j, success, h, t) ==
    IF j \notin DOMAIN js
    THEN js
    ELSE IF success
         THEN [js EXCEPT ![j].status = Completed,
                         ![j].output_hash = h,
                         ![j].completed_at = t]
         ELSE [js EXCEPT ![j].status = Failed,
                         ![j].completed_at = t]

\* report_job_result: the registry after the report.
ReportedWorkers(ws, js, j) ==
    IF j \notin DOMAIN js
    THEN ws
    ELSE LET w == js[j].assigned_worker
         IN  IF w # NoWorker /\ w \in DOMAIN ws
             THEN [ws EXCEPT ![w].active_jobs = SaturatingSub(@)]
             ELSE ws

\* ReportJobResult
ReportJobResult(j, success, h) ==
    /\ ncalls < MaxCalls
    /\ ncalls' = ncalls + 1
    /\ jobs' = ReportedJobs(jobs, j, success, h, now)
    /\ workers' = ReportedWorkers(workers, jobs, j)
    /\ last' = IF j \in DOMAIN jobs
               THEN [Step("ReportJobResult", j, "OK", success, jobs[j].status)
                        EXCEPT !.hash = h]
               ELSE [Step("ReportJobResult", j, "NotFound", success, "-")
                        EXCEPT !.hash = h]
    /\ UNCHANGED <<now, submits, tasks, procs, files, putops, execs, poll, lk>>

\* ListWorkers: evicts the offline workers, then returns the registry.
ListWorkers ==
    /\ ncalls < MaxCalls
    /\ ncalls' = ncalls + 1
    /\ workers' = Evict(workers, now)
    /\ last' = [Step("ListWorkers", "-", "OK", TRUE, "-")
                    EXCEPT !.n = Cardinality(Offline(workers, now))]
    /\ UNCHANGED <<now, jobs, submits, tasks, procs, files, putops, execs, poll, lk>>

\* WorkerInfo of registry record m as list_workers builds it
WorkerInfo(m) ==
    [worker_id |-> m.worker_id, address |-> m.address, capacity |-> m.capacity,
     active_jobs |-> m.active_jobs, last_heartbeat |-> m.last_heartbeat,
     labels |-> m.labels]

\* list_workers: the reply, built from the registry the eviction left (the
\* order of the entries is the map's and is not modelled).
ListWorkersReply == {WorkerInfo(workers[w]) : w \in DOMAIN workers}

\* get_job_status: the reply for a job of the table (NotFound otherwise).
GetJobStatus(j) ==
    [job_id |-> jobs[j].job_id,
     status |-> StatusToI32(jobs[j].status),
     output_hash |-> IF jobs[j].output_hash = NoHash THEN "" ELSE jobs[j].output_hash,
     error |-> "",
     assigned_worker |-> IF jobs[j].assigned_worker = NoWorker THEN ""
                         ELSE jobs[j].assigned_worker]

\* The orders in which a stable sort by submitted_at, newest first, can leave
\* the values of the jobs map (the map's iteration order is arbitrary).
SortedJobIds ==
    {p \in [1..Cardinality(DOMAIN jobs) -> DOMAIN jobs] :
        /\ Injective(p)
        /\ \A a, b \in DOMAIN p :
              a < b => jobs[p[a]].submitted_at >= jobs[p[b]].submitted_at}

\* JobInfo of job j as list_jobs builds it
JobInfo(j) ==
    [job_id |-> jobs[j].job_id,
     status |-> StatusToI32(jobs[j].status),
     input_hash |-> jobs[j].input_hash,
     output_hash |-> IF jobs[j].output_hash = NoHash THEN "" ELSE jobs[j].output_hash,
     assigned_worker |-> IF jobs[j].assigned_worker = NoWorker THEN ""
                         ELSE jobs[j].assigned_worker,
     submitted_at |-> jobs[j].submitted_at,
     completed_at |-> IF jobs[j].completed_at = NoTime THEN 0 ELSE jobs[j].completed_at]

\* A faulty variant: the list is cut to limit entries before it is sorted.
ListJobsMut(limit) ==
    IF limit = 0
    THEN {[i \in 1..Cardinality(DOMAIN jobs) |-> JobInfo(p[i])] : p \in SortedJobIds}
    ELSE {r \in UNION {[1..n -> {JobInfo(j) : j \in DOMAIN jobs}] :
                          n \in {Min(limit, Cardinality(DOMAIN jobs))}} :
            \A a, b \in DOMAIN r :
                a < b => /\ r[a].job_id # r[b].job_id
                         /\ r[a].submitted_at >= r[b].submitted_at}
\* list_jobs: the replies ListJobs(limit) can give in this state.
ListJobs(limit) ==
    {[i \in 1..(IF limit > 0 THEN Min(limit, Cardinality(DOMAIN jobs))
                ELSE Cardinality(DOMAIN jobs)) |-> JobInfo(p[i])]
        : p \in SortedJobIds}

\* GetJobStatus as an RPC: it reads the job table under the read lock and
\* replies GetJobStatus(j), or Status::not_found.
GetJobStatusRpc(j) ==
    /\ ncalls < MaxCalls
    /\ ncalls' = ncalls + 1
    /\ last' = Step("GetJobStatus", j, IF j \in DOMAIN jobs THEN "OK" ELSE "NotFound",
                    j \in DOMAIN jobs, "-")
    /\ UNCHANGED <<now, workers, jobs, submits, tasks, procs, files, putops, execs, poll, lk>>

\* ListJobs as an RPC: it reads the job table under the read lock and replies
\* one of ListJobs(limit).
ListJobsRpc(limit) ==
    /\ ncalls < MaxCalls
    /\ ncalls' = ncalls + 1
    /\ last' = [Step("ListJobs", "-", "OK", TRUE, "-") EXCEPT !.n = limit]
    /\ UNCHANGED <<now, workers, jobs, submits, tasks, procs, files, putops, execs, poll, lk>>

\* ------------------------------------------------------------------ the CAS
\* Cas::compute_hash: the hex SHA-256 digest of a byte string.  The digest is
\* taken to be collision-free: it is the string of the number that reads the
\* bytes as base-4 digits 1..3, which is different for different byte strings
\* (a hole of a sparse file reads as byte 0).
RECURSIVE HashNum(_)
HashNum(b) ==
    IF b = <<>> THEN 0
    ELSE 4 * HashNum(SubSeq(b, 1, Len(b) - 1)) + b[Len(b)] + 1

compute_hash(b) == "sha" \o ToString(HashNum(b))

\* Cas::hash_to_path: <root>/<first2>/<next2>/<hash>, a function of the hash alone.
hash_to_path(h) == <<"cas_root", h>>

\* The digests the callers ask for: those of the blobs.
Digests == {compute_hash(b) : b \in Blobs}

\* A file after write(byte) at offset off (counted from 0): a write past the
\* end leaves a hole of zero bytes.
WriteAt(f, off, byte) ==
    [i \in 1..(IF Len(f) > off + 1 THEN Len(f) ELSE off + 1) |->
        IF i = off + 1 THEN byte
        ELSE IF i <= Len(f) THEN f[i] ELSE 0]

IdlePut == [pc |-> "idle", data |-> <<>>, off |-> 0, peer |-> FALSE]

\* putops when the put of client c returns Ok: c is idle again, and a put of
\* the same bytes that is still under way remembers (peer) that a put
\* concurrent with it has returned Ok.
PutReturned(c) ==
    [d \in CasClients |->
        IF d = c THEN IdlePut
        ELSE IF putops[d].pc # "idle" /\ putops[d].data = putops[c].data
             THEN [putops[d] EXCEPT !.peer = TRUE]
             ELSE putops[d]]

\* The record of a CAS call in last.
CasStep(op, c, code, h, b) ==
    [Step(op, c, code, code = "OK", "-") EXCEPT !.hash = h, !.data = b]

\* Cas::put, called with bytes b: the hash and the path are computed and
\* create_dir_all succeeds.
PutBegin(c, b) ==
    /\ putops[c].pc = "idle"
    /\ ncalls < MaxCalls
    /\ ncalls' = ncalls + 1
    /\ putops' = [putops EXCEPT ![c] = [pc |-> "check", data |-> b, off |-> 0,
                                        peer |-> FALSE]]
    /\ last' = CasStep("PutBegin", c, "OK", compute_hash(b), b)
    /\ UNCHANGED <<now, workers, jobs, submits, tasks, procs, files, execs, poll, lk>>

\* Cas::put: create_dir_all fails and put returns the error.
PutBeginErr(c, b) ==
    /\ putops[c].pc = "idle"
    /\ ncalls < MaxCalls
    /\ ncalls' = ncalls + 1
    /\ last' = CasStep("Put", c, "Err", compute_hash(b), b)
    /\ UNCHANGED <<now, workers, jobs, submits, tasks, procs, files, putops, execs, poll, lk>>

\* Cas::put: `if !path.exists()`; when the path exists put returns Ok(hash)
\* without writing.
PutCheckExists(c) ==
    LET b == putops[c].data
    IN  /\ putops[c].pc = "check"
        /\ IF hash_to_path(compute_hash(b)) \in DOMAIN files
           THEN /\ putops' = PutReturned(c)
                /\ last' = CasStep("Put", c, "OK", compute_hash(b), b)
           ELSE /\ putops' = [putops EXCEPT ![c].pc = "create"]
                /\ last' = CasStep("PutCheckExists", c, "OK", compute_hash(b), b)
        /\ UNCHANGED <<now, workers, jobs, submits, ncalls, tasks, procs, files, execs, poll, lk>>

\* Cas::put: File::create makes the file, or truncates the one another put
\* has made since the check.
PutCreate(c) ==
    LET b == putops[c].data
    IN  /\ putops[c].pc = "create"
        /\ files' = Put(files, hash_to_path(compute_hash(b)), <<>>)
        /\ putops' = [putops EXCEPT ![c].pc = "write"]
        /\ last' = CasStep("PutCreate", c, "OK", compute_hash(b), b)
        /\ UNCHANGED <<now, workers, jobs, submits, ncalls, tasks, procs, execs, poll, lk>>

\* Cas::put: File::create fails and put returns the error.
PutCreateErr(c) ==
    LET b == putops[c].data
    IN  /\ putops[c].pc = "create"
        /\ putops' = [putops EXCEPT ![c] = IdlePut]
        /\ last' = CasStep("Put", c, "Err", compute_hash(b), b)
        /\ UNCHANGED <<now, workers, jobs, submits, ncalls, tasks, procs, files, execs, poll, lk>>

\* Cas::put: write_all writes the next byte at the file offset of this put;
\* after the last byte put returns Ok(hash).
PutWrite(c) ==
    LET b == putops[c].data
        path == hash_to_path(compute_hash(b))
        off == putops[c].off
    IN  /\ putops[c].pc = "write"
        /\ files' = [files EXCEPT ![path] = WriteAt(@, off, b[off + 1])]
        /\ IF off + 1 = Len(b)
           THEN /\ putops' = PutReturned(c)
                /\ last' = CasStep("Put", c, "OK", compute_hash(b), b)
           ELSE /\ putops' = [putops EXCEPT ![c].off = off + 1]
                /\ last' = CasStep("PutWrite", c, "OK", compute_hash(b), b)
        /\ UNCHANGED <<now, workers, jobs, submits, ncalls, tasks, procs, execs, poll, lk>>

\* Cas::put: a write of write_all fails and put returns the error; the file
\* stays as the writes so far left it.
PutWriteErr(c) ==
    LET b == putops[c].data
    IN  /\ putops[c].pc = "write"
        /\ putops' = [putops EXCEPT ![c] = IdlePut]
        /\ last' = CasStep("Put", c, "Err", compute_hash(b), b)
        /\ UNCHANGED <<now, workers, jobs, submits, ncalls, tasks, procs, files, execs, poll, lk>>

\* A faulty variant: a missing path reads as an empty blob.
GetCodeMut(fs, h) == "OK"
\* Cas::get: the reply for hash h, NotFound when the path does not exist and
\* the bytes of the file otherwise.
GetCode(fs, h) == IF hash_to_path(h) \in DOMAIN fs THEN "OK" ELSE "NotFound"

GetBytes(fs, h) == IF hash_to_path(h) \in DOMAIN fs THEN fs[hash_to_path(h)] ELSE <<>>

\* Cas::exists
Exists(fs, h) == hash_to_path(h) \in DOMAIN fs

\* Cas::get as a call.
CasGet(c, h) ==
    /\ ncalls < MaxCalls
    /\ ncalls' = ncalls + 1
    /\ last' = CasStep("Get", c, GetCode(files, h), h, GetBytes(files, h))
    /\ UNCHANGED <<now, workers, jobs, submits, tasks, procs, files, putops, execs, poll, lk>>

\* Cas::exists as a call.
CasExists(c, h) ==
    /\ ncalls < MaxCalls
    /\ ncalls' = ncalls + 1
    /\ last' = [CasStep("Exists", c, "OK", h, <<>>) EXCEPT !.success = Exists(files, h)]
    /\ UNCHANGED <<now, workers, jobs, submits, tasks, procs, files, putops, execs, poll, lk>>

\* The CAS with its callers: puts, step by step, and gets and exists between
\* any two steps.
NextC ==
    \/ \E c \in CasClients, b \in Blobs : PutBegin(c, b)
    \/ \E c \in CasClients, b \in Blobs : PutBeginErr(c, b)
    \/ \E c \in CasClients : PutCheckExists(c)
    \/ \E c \in CasClients : PutCreate(c)
    \/ \E c \in CasClients : PutCreateErr(c)
    \/ \E c \in CasClients : PutWrite(c)
    \/ \E c \in CasClients : PutWriteErr(c)
    \/ \E c \in CasClients, h \in Digests : CasGet(c, h)
    \/ \E c \in CasClients, h \in Digests : CasExists(c, h)

SpecC == Init /\ [][NextC]_vars

\* ------------------------------------------------------ the worker process
\* WorkerService::run: spawns the heartbeat loop, then goes on to register.
\* cap is the capacity of the worker's configuration.
WorkerRun(w, cap) ==
    /\ procs[w].main = "off"
    /\ procs' = [procs EXCEPT ![w] = [main |-> "register", hb |-> "tick",
                                      capacity |-> cap, active_jobs |-> {}]]
    /\ last' = Step("WorkerRun", w, "OK", TRUE, "-")
    /\ UNCHANGED <<now, workers, jobs, submits, ncalls, tasks, files, putops, execs, poll, lk>>

\* WorkerService::register, called once by run: the RegisterWorker RPC with the
\* worker's address and capacity and an empty labels map; then run serves.
WorkerRegister(w) ==
    /\ procs[w].main = "register"
    /\ workers' = Put(workers, w, NewWorker(w, "a1", procs[w].capacity, EmptyMap, now))
    /\ procs' = [procs EXCEPT ![w].main = "serve"]
    /\ last' = [Step("WorkerRegister", w, "OK", TRUE, "-") EXCEPT !.n = procs[w].capacity]
    /\ UNCHANGED <<now, jobs, submits, ncalls, tasks, files, putops, execs, poll, lk>>

\* heartbeat_loop: interval.tick() completes (at once the first time, then
\* every 10 s; how late a tick may be is left open).
WorkerIntervalTick(w) ==
    /\ procs[w].hb = "tick"
    /\ procs' = [procs EXCEPT ![w].hb = "send"]
    /\ last' = Step("WorkerIntervalTick", w, "OK", TRUE, "-")
    /\ UNCHANGED <<now, workers, jobs, submits, ncalls, tasks, files, putops, execs, poll, lk>>

\* send_heartbeat: the request, built from the active-job map under its read
\* lock: active_jobs is the size of the map and available_slots is
\* capacity.saturating_sub(active_jobs).
HeartbeatRequest(w) ==
    LET n == Cardinality(procs[w].active_jobs)
    IN  [worker_id |-> w,
         active_jobs |-> n,
         available_slots |-> IF procs[w].capacity > n THEN procs[w].capacity - n
                             ELSE 0]

\* heartbeat_loop: send_heartbeat sends Heartbeat with the number of jobs in
\* the worker's active-job map; an Err reply is printed and the loop waits
\* for the next tick.  last.data holds the request's active_jobs and
\* available_slots.
WorkerSendHeartbeat(w) ==
    /\ procs[w].hb = "send"
    /\ workers' = Heartbeated(workers, w, HeartbeatRequest(w).active_jobs, now)
    /\ procs' = [procs EXCEPT ![w].hb = "tick"]
    /\ last' = [Step("WorkerHeartbeat", w, HeartbeatCode(workers, w),
                     w \in DOMAIN workers, "-")
                   EXCEPT !.n = HeartbeatRequest(w).active_jobs,
                          !.data = <<HeartbeatRequest(w).active_jobs,
                                     HeartbeatRequest(w).available_slots>>]
    /\ UNCHANGED <<now, jobs, submits, ncalls, tasks, files, putops, execs, poll, lk>>

\* Cas::put as one call without an error, as the client that uploads a
\* job's input makes it: the bytes are written unless the path exists.
CasPut(c, b) ==
    /\ putops[c].pc = "idle"
    /\ ncalls < MaxCalls
    /\ ncalls' = ncalls + 1
    /\ files' = IF Exists(files, compute_hash(b)) THEN files
                ELSE Put(files, hash_to_path(compute_hash(b)), b)
    /\ last' = CasStep("Put", c, "OK", compute_hash(b), b)
    /\ UNCHANGED <<now, workers, jobs, submits, tasks, procs, putops, execs, poll, lk>>

\* Worker::get_status: the size of the active-job map and the capacity.
WorkerGetStatus(w) ==
    /\ procs[w].main = "serve"
    /\ ncalls < MaxCalls
    /\ ncalls' = ncalls + 1
    /\ last' = [Step("GetStatus", w, "OK", TRUE, "-")
                   EXCEPT !.n = Cardinality(procs[w].active_jobs),
                          !.data = <<Cardinality(procs[w].active_jobs),
                                     procs[w].capacity>>]
    /\ UNCHANGED <<now, workers, jobs, submits, tasks, procs, files, putops, execs, poll, lk>>

\* Worker::execute_job: an ExecuteJob request for job j with input hash h
\* reaches serving worker w, which inserts j into its active-job map (a map
\* keyed by job_id).  The request takes the lowest free slot.
ExecuteJobRecv(e, w, j, h, ty) ==
    /\ execs[e].pc = "idle"
    /\ \A e2 \in ExecIds : e2 < e => execs[e2].pc # "idle"
    /\ procs[w].main = "serve"
    /\ ncalls < MaxCalls
    /\ ncalls' = ncalls + 1
    /\ execs' = [execs EXCEPT ![e] = [IdleExec EXCEPT !.pc = "run", !.worker = w,
                                                      !.job_id = j, !.input_hash = h,
                                                      !.job_type = ty]]
    /\ procs' = [procs EXCEPT ![w].active_jobs = @ \cup {j}]
    /\ last' = [Step("ExecuteJobRecv", w, "OK", TRUE, j) EXCEPT !.hash = h, !.n = e]
    /\ UNCHANGED <<now, workers, jobs, submits, tasks, files, putops, poll, lk>>

\* execute_job_impl: the validation of the input, which passes when the text
\* contains "fn ", "pub " or "use "; byte 1 stands for such a keyword.
LooksLikeRust(b) == \E i \in 1..Len(b) : b[i] = 1

\* The bytes of a worker's id in the text execute_job_impl appends.
WorkerIdByte(w) == IF w = "w1" THEN 1 ELSE 2

\* execute_job_impl: the output, format!("{} + compiled by worker {}",
\* input_str, self.worker_id).
Transform(w, input) == input \o <<WorkerIdByte(w)>>

\* A faulty variant: the output hash is computed but the output is not
\* stored.
ExecuteJobImplMut(e) ==
    LET x == execs[e]
        found == GetCode(files, x.input_hash) = "OK"
        bytes == GetBytes(files, x.input_hash)
        good == found /\ LooksLikeRust(bytes)
        h == compute_hash(Transform(x.worker, bytes))
    IN  /\ x.pc = "run"
        /\ execs' = IF good
                    THEN [execs EXCEPT ![e].pc = "remove", ![e].input = bytes,
                                       ![e].ok = TRUE, ![e].output_hash = h]
                    ELSE [execs EXCEPT ![e].pc = "remove", ![e].ok = FALSE]
        /\ last' = [Step("ExecuteJobImpl", x.worker, "OK", good, x.job_id)
                       EXCEPT !.hash = IF good THEN h ELSE "", !.n = e]
        /\ UNCHANGED <<now, workers, jobs, submits, ncalls, tasks, procs, files, putops, poll, lk>>
\* execute_job_impl: cas.get(input_hash), the validation, the output and
\* cas.put(output).  A missing input or one that does not look like Rust
\* source is the job's error; otherwise the output is stored (a path that
\* exists is left as it is) and its hash is the job's result.
ExecuteJobImpl(e) ==
    LET x == execs[e]
        found == GetCode(files, x.input_hash) = "OK"
        bytes == GetBytes(files, x.input_hash)
        good == found /\ LooksLikeRust(bytes)
        output == Transform(x.worker, bytes)
        h == compute_hash(output)
    IN  /\ x.pc = "run"
        /\ files' = IF good /\ ~Exists(files, h)
                    THEN Put(files, hash_to_path(h), output)
                    ELSE files
        /\ execs' = IF good
                    THEN [execs EXCEPT ![e].pc = "remove", ![e].input = bytes,
                                       ![e].ok = TRUE, ![e].output_hash = h]
                    ELSE [execs EXCEPT ![e].pc = "remove", ![e].ok = FALSE]
        /\ last' = [Step("ExecuteJobImpl", x.worker,
                         IF found THEN (IF good THEN "OK" ELSE "Invalid")
                         ELSE "NotFound",
                         good, x.job_id)
                       EXCEPT !.hash = IF good THEN h ELSE "", !.n = e]
        /\ UNCHANGED <<now, workers, jobs, submits, ncalls, tasks, procs, putops, poll, lk>>

\* execute_job: the job is removed from the active-job map, before the
\* result is reported.
ExecRemove(e) ==
    LET x == execs[e]
    IN  /\ x.pc = "remove"
        /\ procs' = [procs EXCEPT ![x.worker].active_jobs = @ \ {x.job_id}]
        /\ execs' = [execs EXCEPT ![e].pc = "report"]
        /\ last' = [Step("ExecRemove", x.worker, "OK", x.ok, x.job_id) EXCEPT !.n = e]
        /\ UNCHANGED <<now, workers, jobs, submits, ncalls, tasks, files, putops, poll, lk>>

\* A faulty variant: a failure is reported as a success.
ReportRequestMut(x) ==
    [job_id |-> x.job_id, success |-> TRUE, output_hash |-> x.output_hash]
\* execute_job: the ReportJobResultRequest built from the result of
\* execute_job_impl: (true, output_hash) on Ok and (false, "") on Err.
ReportRequest(x) ==
    [job_id |-> x.job_id,
     success |-> x.ok,
     output_hash |-> IF x.ok THEN x.output_hash ELSE ""]

\* execute_job: report_completion, called once; the scheduler handles the
\* ReportJobResult and its reply is dropped (let _ =).
ExecReport(e) ==
    LET x == execs[e]
        r == ReportRequest(x)
    IN  /\ x.pc = "report"
        /\ jobs' = ReportedJobs(jobs, r.job_id, r.success, r.output_hash, now)
        /\ workers' = ReportedWorkers(workers, jobs, r.job_id)
        /\ execs' = [execs EXCEPT ![e].pc = "respond", ![e].sent = @ + 1]
        /\ last' = [Step("WorkerReport", x.worker,
                         IF r.job_id \in DOMAIN jobs THEN "OK" ELSE "NotFound",
                         r.success, r.job_id)
                       EXCEPT !.hash = r.output_hash, !.n = e]
        /\ UNCHANGED <<now, submits, ncalls, tasks, procs, files, putops, poll, lk>>

\* execute_job: report_completion, called once, fails to connect to the
\* scheduler or loses the call; the error is dropped (let _ =).
ExecReportErr(e) ==
    LET x == execs[e]
        r == ReportRequest(x)
    IN  /\ x.pc = "report"
        /\ execs' = [execs EXCEPT ![e].pc = "respond", ![e].sent = @ + 1]
        /\ last' = [Step("WorkerReport", x.worker, "Unavailable", r.success, r.job_id)
                       EXCEPT !.hash = r.output_hash, !.n = e]
        /\ UNCHANGED <<now, workers, jobs, submits, ncalls, tasks, procs, files, putops, poll, lk>>

\* execute_job: the ExecuteJobResponse with the outcome; the handler always
\* returns Ok(Response) and the worker goes on serving.
ExecRespond(e) ==
    LET x == execs[e]
    IN  /\ x.pc = "respond"
        /\ execs' = [execs EXCEPT ![e] = IdleExec]
        /\ last' = [Step("ExecuteJob", x.worker, "OK", x.ok, x.job_id)
                       EXCEPT !.hash = IF x.ok THEN x.output_hash ELSE "",
                              !.n = x.sent]
        /\ UNCHANGED <<now, workers, jobs, submits, ncalls, tasks, procs, files, putops, poll, lk>>

\* The worker processes against the scheduler's registry: the clock, the
\* workers' run, register and heartbeat loop, and ListWorkers calls.
NextW ==
    \/ Tick
    \/ ListWorkers
    \/ \E w \in WorkerIds, cap \in Capacities : WorkerRun(w, cap)
    \/ \E w \in WorkerIds : WorkerRegister(w)
    \/ \E w \in WorkerIds : WorkerIntervalTick(w)
    \/ \E w \in WorkerIds : WorkerSendHeartbeat(w)

\* A started worker process keeps running: its register call and every
\* iteration of its heartbeat loop are eventually made.
SpecW ==
    /\ Init
    /\ [][NextW]_vars
    /\ \A w \in WorkerIds : /\ WF_vars(WorkerRegister(w))
                            /\ WF_vars(WorkerIntervalTick(w))
                            /\ WF_vars(WorkerSendHeartbeat(w))

\* The workers executing jobs: the worker processes, a client that puts
\* input blobs into the CAS the workers share, and the ExecuteJob requests
\* that reach the workers.  The heartbeat loops are not followed here.
NextX ==
    \/ \E w \in WorkerIds, cap \in Capacities : WorkerRun(w, cap)
    \/ \E w \in WorkerIds : WorkerRegister(w)
    \/ \E b \in InputBlobs : CasPut("c1", b)
    \/ \E e \in ExecIds, w \in WorkerIds, j \in JobIds, b \in InputBlobs,
         ty \in JobTypes :
          ExecuteJobRecv(e, w, j, compute_hash(b), ty)
    \/ \E e \in ExecIds : ExecuteJobImpl(e)
    \/ \E e \in ExecIds : ExecRemove(e)
    \/ \E e \in ExecIds : ExecReport(e)
    \/ \E e \in ExecIds : ExecReportErr(e)
    \/ \E e \in ExecIds : ExecRespond(e)

SpecX == Init /\ [][NextX]_vars

\* One worker, w1, executing jobs while its heartbeat loop runs and its
\* status is asked for.
NextH ==
    \/ \E cap \in Capacities : WorkerRun("w1", cap)
    \/ WorkerRegister("w1")
    \/ WorkerIntervalTick("w1")
    \/ WorkerSendHeartbeat("w1")
    \/ WorkerGetStatus("w1")
    \/ \E b \in InputBlobs : CasPut("c1", b)
    \/ \E e \in ExecIds, j \in JobIds, b \in InputBlobs, ty \in JobTypes :
          ExecuteJobRecv(e, "w1", j, compute_hash(b), ty)
    \/ \E e \in ExecIds : ExecuteJobImpl(e)
    \/ \E e \in ExecIds : ExecRemove(e)
    \/ \E e \in ExecIds : ExecReport(e)
    \/ \E e \in ExecIds : ExecReportErr(e)
    \/ \E e \in ExecIds : ExecRespond(e)

SpecH == Init /\ [][NextH]_vars

\* ------------------------------------------- scheduler and worker together
\* dispatch_job_to_worker: WorkerClient::connect succeeds and the ExecuteJob
\* request of task t reaches its worker, which is serving: execute_job
\* inserts the job into the worker's active-job map, and the task waits for
\* the response.  The request takes the lowest free slot.
DispatchExecuteJob(t, e) ==
    LET r == ExecuteJobRequest(t)
    IN  /\ t.pc = "rpc"
        /\ procs[t.worker].main = "serve"
        /\ execs[e].pc = "idle"
        /\ \A e2 \in ExecIds : e2 < e => execs[e2].pc # "idle"
        /\ execs' = [execs EXCEPT ![e] = [IdleExec EXCEPT !.pc = "run",
                                                          !.worker = t.worker,
                                                          !.job_id = r.job_id,
                                                          !.input_hash = r.input_hash,
                                                          !.job_type = r.job_type]]
        /\ procs' = [procs EXCEPT ![t.worker].active_jobs = @ \cup {r.job_id}]
        /\ tasks' = (tasks (-) SetToBag({t})) (+) SetToBag({[t EXCEPT !.pc = "await"]})
        /\ last' = [Step("ExecuteJobRecv", t.worker, "OK", TRUE, r.job_id)
                       EXCEPT !.hash = r.input_hash, !.n = e]
        /\ UNCHANGED <<now, workers, jobs, submits, ncalls, files, putops, poll, lk>>

\* execute_job returns its ExecuteJobResponse to the dispatch task that
\* waits for it; the task drops the response (_response) and ends.
DispatchExecuteJobReturns(t, e) ==
    LET x == execs[e]
    IN  /\ t.pc = "await"
        /\ x.pc = "respond"
        /\ x.worker = t.worker
        /\ x.job_id = t.job
        /\ execs' = [execs EXCEPT ![e] = IdleExec]
        /\ tasks' = tasks (-) SetToBag({t})
        /\ last' = [Step("ExecuteJob", x.worker, "OK", x.ok, x.job_id)
                       EXCEPT !.hash = IF x.ok THEN x.output_hash ELSE "",
                              !.n = x.sent]
        /\ UNCHANGED <<now, workers, jobs, submits, ncalls, procs, files, putops, poll, lk>>

\* The whole system with one worker process, w1, and one job, j1: a client
\* that puts input blobs into the CAS and submits the job once, the
\* scheduler's passes and dispatch tasks, the worker's run, register and
\* heartbeat loop, and the ExecuteJob calls between them.  The scheduler's
\* RPCs have no other callers here.
NextS ==
    \/ Tick
    \/ \E b \in InputBlobs : CasPut("c1", b)
    \/ \E j \in {"j1"} \ DOMAIN jobs, b \in InputBlobs, ty \in JobTypes,
         m \in MetadataMaps :
          SubmitInsert(j, compute_hash(b), ty, m)
    \/ SubmitAssign("j1")
    \/ \E cap \in Capacities : WorkerRun("w1", cap)
    \/ WorkerRegister("w1")
    \/ WorkerIntervalTick("w1")
    \/ WorkerSendHeartbeat("w1")
    \/ \E t \in BagToSet(tasks) : DispatchSetRunning(t)
    \/ \E t \in BagToSet(tasks), e \in ExecIds : DispatchExecuteJob(t, e)
    \/ \E t \in BagToSet(tasks) : DispatchRpcErr(t)
    \/ \E e \in ExecIds : ExecuteJobImpl(e)
    \/ \E e \in ExecIds : ExecRemove(e)
    \/ \E e \in ExecIds : ExecReport(e)
    \/ \E e \in ExecIds : ExecReportErr(e)
    \/ \E t \in BagToSet(tasks), e \in ExecIds : DispatchExecuteJobReturns(t, e)

\* The scheduler and the worker keep running: a handler or task that can
\* take its next step takes it, the worker's loops go on, and every RPC
\* either is delivered or returns a transport error to its caller.
SpecS ==
    /\ Init
    /\ [][NextS]_vars
    /\ WF_vars(SubmitAssign("j1"))
    /\ WF_vars(WorkerRegister("w1"))
    /\ WF_vars(WorkerIntervalTick("w1"))
    /\ WF_vars(WorkerSendHeartbeat("w1"))
    /\ WF_vars(\E t \in BagToSet(tasks) : DispatchSetRunning(t))
    /\ WF_vars(\E t \in BagToSet(tasks) :
                  \/ \E e \in ExecIds : DispatchExecuteJob(t, e)
                  \/ DispatchRpcErr(t))
    /\ \A e \in ExecIds : /\ WF_vars(ExecuteJobImpl(e))
                           /\ WF_vars(ExecRemove(e))
                           /\ WF_vars(ExecReport(e) \/ ExecReportErr(e))
    /\ WF_vars(\E t \in BagToSet(tasks), e \in ExecIds :
                  DispatchExecuteJobReturns(t, e))

\* ------------------------------------------------ the two state locks
\* The same system at the grain of its locks.  lk.slock names the handler or
\* task that holds the scheduler's RwLock ("free" when nobody does; every
\* handler here takes it with write()).  lk.wreaders and lk.wwriter are the
\* holders of the worker's RwLock: the read guards and the execute_job call
\* (0 when none) that holds it with write().  A handler that waits for a lock
\* stays where it is until the lock can be taken.  One worker, w1, and one
\* job, j1.

\* submit_job: state.write() is granted to the SubmitJob handler of j.
SubmitJobLock(j) ==
    /\ submits[j].pc = "idle"
    /\ j \notin DOMAIN jobs
    /\ ncalls < MaxCalls
    /\ lk.slock = "free"
    /\ lk' = [lk EXCEPT !.slock = "submit"]
    /\ submits' = [submits EXCEPT ![j].pc = "locked"]
    /\ ncalls' = ncalls + 1
    /\ last' = Step("SubmitJobLock", j, "OK", TRUE, "-")
    /\ UNCHANGED <<now, workers, jobs, tasks, procs, files, putops, execs, poll>>

\* submit_job: the PENDING record is inserted and the guard is dropped
\* (drop(state)) before the assignment pass is called.
SubmitJobInsert(j, input, type, meta) ==
    /\ submits[j].pc = "locked"
    /\ lk.slock = "submit"
    /\ jobs' = Put(jobs, j, NewJob(j, input, type, meta, now))
    /\ submits' = [submits EXCEPT ![j].pc = "inserted"]
    /\ lk' = [lk EXCEPT !.slock = "free"]
    /\ last' = Step("SubmitInsert", j, "OK", TRUE, "-")
    /\ UNCHANGED <<now, workers, ncalls, tasks, procs, files, putops, execs, poll>>

\* assign_jobs_to_workers: state.write() is granted to the pass.
PassLock(j) ==
    /\ submits[j].pc = "inserted"
    /\ lk.slock = "free"
    /\ lk' = [lk EXCEPT !.slock = "submit"]
    /\ submits' = [submits EXCEPT ![j].pc = "pass"]
    /\ last' = Step("PassLock", j, "OK", TRUE, "-")
    /\ UNCHANGED <<now, workers, jobs, ncalls, tasks, procs, files, putops, execs, poll>>

\* assign_jobs_to_workers: eviction, pairing and the ASSIGNED updates under
\* the guard; drop(state); then the dispatch tasks are spawned and SubmitJob
\* replies.
PassAssign(j) ==
    /\ submits[j].pc = "pass"
    /\ lk.slock = "submit"
    /\ AssignJobsToWorkers
    /\ submits' = [submits EXCEPT ![j].pc = "idle"]
    /\ lk' = [lk EXCEPT !.slock = "free"]
    /\ last' = Step("SubmitJob", j, "OK", TRUE, "-")
    /\ UNCHANGED <<now, ncalls, procs, files, putops, execs, poll>>

\* dispatch_job_to_worker: state.write() is granted to task t for the
\* RUNNING update.
DispatchLock(t) ==
    /\ t.pc = "start"
    /\ lk.slock = "free"
    /\ lk' = [lk EXCEPT !.slock = "dispatch"]
    /\ tasks' = (tasks (-) SetToBag({t})) (+) SetToBag({[t EXCEPT !.pc = "locked"]})
    /\ last' = Step("DispatchLock", t.job, "OK", TRUE, "-")
    /\ UNCHANGED <<now, workers, jobs, submits, ncalls, procs, files, putops, execs, poll>>

\* A faulty variant: the guard of the RUNNING update lives on while the task
\* connects and calls ExecuteJob.
DispatchRunningMut(t) ==
    /\ t.pc = "locked"
    /\ lk.slock = "dispatch"
    /\ jobs' = IF t.job \in DOMAIN jobs
               THEN [jobs EXCEPT ![t.job].status = Running]
               ELSE jobs
    /\ tasks' = (tasks (-) SetToBag({t})) (+) SetToBag({[t EXCEPT !.pc = "rpc"]})
    /\ last' = Step("DispatchSetRunning", t.job, "OK", TRUE, "-")
    /\ UNCHANGED <<now, workers, submits, ncalls, procs, files, putops, execs, poll, lk>>
\* dispatch_job_to_worker: the job becomes RUNNING and the block that holds
\* the guard ends, before WorkerClient::connect.
DispatchRunning(t) ==
    /\ t.pc = "locked"
    /\ lk.slock = "dispatch"
    /\ jobs' = IF t.job \in DOMAIN jobs
               THEN [jobs EXCEPT ![t.job].status = Running]
               ELSE jobs
    /\ tasks' = (tasks (-) SetToBag({t})) (+) SetToBag({[t EXCEPT !.pc = "rpc"]})
    /\ lk' = [lk EXCEPT !.slock = "free"]
    /\ last' = Step("DispatchSetRunning", t.job, "OK", TRUE, "-")
    /\ UNCHANGED <<now, workers, submits, ncalls, procs, files, putops, execs, poll>>

\* dispatch_job_to_worker: connect succeeds and the ExecuteJob request of
\* task t reaches its worker, whose execute_job asks for state.write(); the
\* task waits for the response.
DispatchSend(t, e) ==
    LET r == ExecuteJobRequest(t)
    IN  /\ t.pc = "rpc"
        /\ procs[t.worker].main = "serve"
        /\ execs[e].pc = "idle"
        /\ \A e2 \in ExecIds : e2 < e => execs[e2].pc # "idle"
        /\ execs' = [execs EXCEPT ![e] = [IdleExec EXCEPT !.pc = "recv",
                                                          !.worker = t.worker,
                                                          !.job_id = r.job_id,
                                                          !.input_hash = r.input_hash,
                                                          !.job_type = r.job_type]]
        /\ tasks' = (tasks (-) SetToBag({t})) (+) SetToBag({[t EXCEPT !.pc = "await"]})
        /\ last' = [Step("ExecuteJobRecv", t.worker, "OK", TRUE, r.job_id)
                       EXCEPT !.hash = r.input_hash, !.n = e]
        /\ UNCHANGED <<now, workers, jobs, submits, ncalls, procs, files, putops, poll, lk>>

\* dispatch_job_to_worker returns Err (connect or execute_job failed): the
\* spawned task goes on to mark the job FAILED.
DispatchErr(t) ==
    /\ t.pc = "rpc"
    /\ tasks' = (tasks (-) SetToBag({t})) (+) SetToBag({[t EXCEPT !.pc = "failed"]})
    /\ last' = Step("DispatchErr", t.job, "Err", FALSE, "-")
    /\ UNCHANGED <<now, workers, jobs, submits, ncalls, procs, files, putops, execs, poll, lk>>

\* the spawned task, Err branch: state.write() is granted for the FAILED
\* update.
DispatchFailLock(t) ==
    /\ t.pc = "failed"
    /\ lk.slock = "free"
    /\ lk' = [lk EXCEPT !.slock = "dispatch"]
    /\ tasks' = (tasks (-) SetToBag({t})) (+) SetToBag({[t EXCEPT !.pc = "faillocked"]})
    /\ last' = Step("DispatchFailLock", t.job, "OK", TRUE, "-")
    /\ UNCHANGED <<now, workers, jobs, submits, ncalls, procs, files, putops, execs, poll>>

\* the spawned task, Err branch: the job becomes FAILED, the worker's slot
\* is given back, and the task ends, which drops the guard.
DispatchFail(t) ==
    /\ t.pc = "faillocked"
    /\ lk.slock = "dispatch"
    /\ jobs' = IF t.job \in DOMAIN jobs
               THEN [jobs EXCEPT ![t.job].status = Failed,
                                 ![t.job].completed_at = now]
               ELSE jobs
    /\ workers' = IF t.worker \in DOMAIN workers
                  THEN [workers EXCEPT ![t.worker].active_jobs = SaturatingSub(@)]
                  ELSE workers
    /\ tasks' = tasks (-) SetToBag({t})
    /\ lk' = [lk EXCEPT !.slock = "free"]
    /\ last' = Step("DispatchRpcErr", t.job, "Err", FALSE, "-")
    /\ UNCHANGED <<now, submits, ncalls, procs, files, putops, execs, poll>>

\* execute_job: state.write() of the worker is granted: nobody reads or
\* writes the active-job map.
ExecInsertLock(e) ==
    /\ execs[e].pc = "recv"
    /\ lk.wwriter = 0
    /\ lk.wreaders = {}
    /\ lk' = [lk EXCEPT !.wwriter = e]
    /\ execs' = [execs EXCEPT ![e].pc = "inserting"]
    /\ last' = [Step("ExecInsertLock", execs[e].worker, "OK", TRUE, execs[e].job_id)
                   EXCEPT !.n = e]
    /\ UNCHANGED <<now, workers, jobs, submits, ncalls, tasks, procs, files, putops, poll>>

\* execute_job: the job is inserted into the active-job map and the block
\* that holds the guard ends.
ExecInsert(e) ==
    LET x == execs[e]
    IN  /\ x.pc = "inserting"
        /\ lk.wwriter = e
        /\ procs' = [procs EXCEPT ![x.worker].active_jobs = @ \cup {x.job_id}]
        /\ execs' = [execs EXCEPT ![e].pc = "run"]
        /\ lk' = [lk EXCEPT !.wwriter = 0]
        /\ last' = [Step("ExecInsert", x.worker, "OK", TRUE, x.job_id) EXCEPT !.n = e]
        /\ UNCHANGED <<now, workers, jobs, submits, ncalls, tasks, files, putops, poll>>

\* execute_job, after execute_job_impl: state.write() of the worker is
\* granted for the removal.
ExecRemoveLock(e) ==
    /\ execs[e].pc = "remove"
    /\ lk.wwriter = 0
    /\ lk.wreaders = {}
    /\ lk' = [lk EXCEPT !.wwriter = e]
    /\ execs' = [execs EXCEPT ![e].pc = "removing"]
    /\ last' = [Step("ExecRemoveLock", execs[e].worker, "OK", TRUE, execs[e].job_id)
                   EXCEPT !.n = e]
    /\ UNCHANGED <<now, workers, jobs, submits, ncalls, tasks, procs, files, putops, poll>>

\* execute_job: the job is removed from the active-job map and the block
\* that holds the guard ends, before report_completion.
ExecRemoveUnlock(e) ==
    LET x == execs[e]
    IN  /\ x.pc = "removing"
        /\ lk.wwriter = e
        /\ procs' = [procs EXCEPT ![x.worker].active_jobs = @ \ {x.job_id}]
        /\ execs' = [execs EXCEPT ![e].pc = "report"]
        /\ lk' = [lk EXCEPT !.wwriter = 0]
        /\ last' = [Step("ExecRemove", x.worker, "OK", x.ok, x.job_id) EXCEPT !.n = e]
        /\ UNCHANGED <<now, workers, jobs, submits, ncalls, tasks, files, putops, poll>>

\* report_completion reaches the scheduler: state.write() is granted to the
\* ReportJobResult handler.
ReportLock(e) ==
    /\ execs[e].pc = "report"
    /\ lk.slock = "free"
    /\ lk' = [lk EXCEPT !.slock = "report"]
    /\ execs' = [execs EXCEPT ![e].pc = "reporting"]
    /\ last' = [Step("ReportLock", execs[e].worker, "OK", TRUE, execs[e].job_id)
                   EXCEPT !.n = e]
    /\ UNCHANGED <<now, workers, jobs, submits, ncalls, tasks, procs, files, putops, poll>>

\* A faulty variant: the ReportJobResult handler replies with its guard
\* still alive.
ReportHandleMut(e) ==
    LET x == execs[e]
        r == ReportRequest(x)
    IN  /\ x.pc = "reporting"
        /\ lk.slock = "report"
        /\ jobs' = ReportedJobs(jobs, r.job_id, r.success, r.output_hash, now)
        /\ workers' = ReportedWorkers(workers, jobs, r.job_id)
        /\ execs' = [execs EXCEPT ![e].pc = "respond", ![e].sent = @ + 1]
        /\ last' = [Step("WorkerReport", x.worker,
                         IF r.job_id \in DOMAIN jobs THEN "OK" ELSE "NotFound",
                         r.success, r.job_id)
                       EXCEPT !.hash = r.output_hash, !.n = e]
        /\ UNCHANGED <<now, submits, ncalls, tasks, procs, files, putops, poll, lk>>
\* report_job_result: the handler updates the job and the worker's load
\* and returns, which drops the guard; the worker drops the reply.
ReportHandle(e) ==
    LET x == execs[e]
        r == ReportRequest(x)
    IN  /\ x.pc = "reporting"
        /\ lk.slock = "report"
        /\ jobs' = ReportedJobs(jobs, r.job_id, r.success, r.output_hash, now)
        /\ workers' = ReportedWorkers(workers, jobs, r.job_id)
        /\ execs' = [execs EXCEPT ![e].pc = "respond", ![e].sent = @ + 1]
        /\ lk' = [lk EXCEPT !.slock = "free"]
        /\ last' = [Step("WorkerReport", x.worker,
                         IF r.job_id \in DOMAIN jobs THEN "OK" ELSE "NotFound",
                         r.success, r.job_id)
                       EXCEPT !.hash = r.output_hash, !.n = e]
        /\ UNCHANGED <<now, submits, ncalls, tasks, procs, files, putops, poll>>

\* WorkerService::register reaches the scheduler: state.write() is granted
\* to the RegisterWorker handler.
RegisterLock(w) ==
    /\ procs[w].main = "register"
    /\ lk.slock = "free"
    /\ lk' = [lk EXCEPT !.slock = "register"]
    /\ procs' = [procs EXCEPT ![w].main = "registering"]
    /\ last' = Step("RegisterLock", w, "OK", TRUE, "-")
    /\ UNCHANGED <<now, workers, jobs, submits, ncalls, tasks, files, putops, execs, poll>>

\* register_worker: the record is written and the handler returns; the
\* worker goes on to serve.
RegisterHandle(w) ==
    /\ procs[w].main = "registering"
    /\ lk.slock = "register"
    /\ workers' = Put(workers, w, NewWorker(w, "a1", procs[w].capacity, EmptyMap, now))
    /\ procs' = [procs EXCEPT ![w].main = "serve"]
    /\ lk' = [lk EXCEPT !.slock = "free"]
    /\ last' = [Step("WorkerRegister", w, "OK", TRUE, "-") EXCEPT !.n = procs[w].capacity]
    /\ UNCHANGED <<now, jobs, submits, ncalls, tasks, files, putops, execs, poll>>

\* send_heartbeat: after connect, state.read() of the worker is granted (no
\* execute_job holds the write guard); the request is built from the map's
\* size and client.heartbeat(request) is called.  The read guard is the
\* local `state`, which lives until send_heartbeat returns.
HeartbeatReadLock(w) ==
    /\ procs[w].hb = "send"
    /\ lk.wwriter = 0
    /\ lk' = [lk EXCEPT !.wreaders = @ \cup {"hb"},
                        !.hbn = HeartbeatRequest(w).active_jobs]
    /\ procs' = [procs EXCEPT ![w].hb = "calling"]
    /\ last' = [Step("HeartbeatReadLock", w, "OK", TRUE, "-")
                   EXCEPT !.n = HeartbeatRequest(w).active_jobs]
    /\ UNCHANGED <<now, workers, jobs, submits, ncalls, tasks, files, putops, execs, poll>>

\* The Heartbeat request reaches the scheduler: state.write() is granted to
\* the Heartbeat handler.
HeartbeatLock(w) ==
    /\ procs[w].hb = "calling"
    /\ lk.slock = "free"
    /\ lk' = [lk EXCEPT !.slock = "heartbeat"]
    /\ procs' = [procs EXCEPT ![w].hb = "handling"]
    /\ last' = Step("HeartbeatLock", w, "OK", TRUE, "-")
    /\ UNCHANGED <<now, workers, jobs, submits, ncalls, tasks, files, putops, execs, poll>>

\* heartbeat: the handler updates the worker's record and returns.
HeartbeatHandle(w) ==
    /\ procs[w].hb = "handling"
    /\ lk.slock = "heartbeat"
    /\ workers' = Heartbeated(workers, w, lk.hbn, now)
    /\ procs' = [procs EXCEPT ![w].hb = "replied"]
    /\ lk' = [lk EXCEPT !.slock = "free"]
    /\ last' = [Step("WorkerHeartbeat", w, HeartbeatCode(workers, w),
                     w \in DOMAIN workers, "-")
                   EXCEPT !.n = lk.hbn]
    /\ UNCHANGED <<now, jobs, submits, ncalls, tasks, files, putops, execs, poll>>

\* send_heartbeat: the reply (or a transport error while the call was on
\* its way) comes back, send_heartbeat returns and its read guard is
\* dropped; the loop waits for the next tick.
HeartbeatReturn(w) ==
    /\ procs[w].hb \in {"calling", "replied"}
    /\ lk' = [lk EXCEPT !.wreaders = @ \ {"hb"}]
    /\ procs' = [procs EXCEPT ![w].hb = "tick"]
    /\ last' = Step("HeartbeatReturn", w,
                    IF procs[w].hb = "replied" THEN "OK" ELSE "Unavailable",
                    procs[w].hb = "replied", "-")
    /\ UNCHANGED <<now, workers, jobs, submits, ncalls, tasks, files, putops, execs, poll>>

\* list_workers: state.write() is granted to a ListWorkers handler.
ListWorkersLock ==
    /\ ncalls < MaxCalls
    /\ lk.slock = "free"
    /\ lk' = [lk EXCEPT !.slock = "list"]
    /\ ncalls' = ncalls + 1
    /\ last' = Step("ListWorkersLock", "-", "OK", TRUE, "-")
    /\ UNCHANGED <<now, workers, jobs, submits, tasks, procs, files, putops, execs, poll>>

\* list_workers: eviction, the reply is built, and the handler returns.
ListWorkersHandle ==
    /\ lk.slock = "list"
    /\ workers' = Evict(workers, now)
    /\ lk' = [lk EXCEPT !.slock = "free"]
    /\ last' = [Step("ListWorkers", "-", "OK", TRUE, "-")
                    EXCEPT !.n = Cardinality(Offline(workers, now))]
    /\ UNCHANGED <<now, jobs, submits, ncalls, tasks, procs, files, putops, execs, poll>>

\* The holder of the scheduler's lock ends its critical section.
SchedulerUnlock ==
    \/ \E b \in InputBlobs, ty \in JobTypes, m \in MetadataMaps :
          SubmitJobInsert("j1", compute_hash(b), ty, m)
    \/ PassAssign("j1")
    \/ \E t \in BagToSet(tasks) : DispatchRunning(t)
    \/ \E t \in BagToSet(tasks) : DispatchFail(t)
    \/ \E e \in ExecIds : ReportHandle(e)
    \/ RegisterHandle("w1")
    \/ HeartbeatHandle("w1")
    \/ ListWorkersHandle

\* The system with one worker, w1, and one job, j1, at the grain of its
\* locks.
NextL ==
    \/ \E b \in InputBlobs : CasPut("c1", b)
    \/ SubmitJobLock("j1")
    \/ PassLock("j1")
    \/ \E cap \in Capacities : WorkerRun("w1", cap)
    \/ RegisterLock("w1")
    \/ WorkerIntervalTick("w1")
    \/ HeartbeatReadLock("w1")
    \/ HeartbeatLock("w1")
    \/ HeartbeatReturn("w1")
    \/ ListWorkersLock
    \/ \E t \in BagToSet(tasks) : DispatchLock(t)
    \/ \E t \in BagToSet(tasks), e \in ExecIds : DispatchSend(t, e)
    \/ \E t \in BagToSet(tasks) : DispatchErr(t)
    \/ \E t \in BagToSet(tasks) : DispatchFailLock(t)
    \/ \E e \in ExecIds : ExecInsertLock(e)
    \/ \E e \in ExecIds : ExecInsert(e)
    \/ \E e \in ExecIds : ExecuteJobImpl(e)
    \/ \E e \in ExecIds : ExecRemoveLock(e)
    \/ \E e \in ExecIds : ExecRemoveUnlock(e)
    \/ \E e \in ExecIds : ReportLock(e)
    \/ \E e \in ExecIds : ExecReportErr(e)
    \/ \E t \in BagToSet(tasks), e \in ExecIds : DispatchExecuteJobReturns(t, e)
    \/ SchedulerUnlock

\* A handler, once it has the lock it asked for, runs on and returns; the
\* network delivers a call or fails it; tokio's RwLock grants a lock in the
\* order it was asked for, so the Heartbeat, ReportJobResult and execute_job
\* calls that wait for a lock which is released again and again get it (SF).
\* How often clients call, and whether the heartbeat loop's timer fires, is
\* left open.
SpecL ==
    /\ Init
    /\ [][NextL]_vars
    /\ WF_vars(SchedulerUnlock)
    /\ SF_vars(HeartbeatLock("w1") \/ HeartbeatReturn("w1"))
    /\ SF_vars(\E e \in ExecIds : ExecInsertLock(e) \/ ExecRemoveLock(e))
    /\ WF_vars(\E e \in ExecIds : ExecInsert(e) \/ ExecuteJobImpl(e) \/ ExecRemoveUnlock(e))
    /\ SF_vars(\E e \in ExecIds : ReportLock(e) \/ ExecReportErr(e))
    /\ WF_vars(\E t \in BagToSet(tasks), e \in ExecIds :
                  DispatchExecuteJobReturns(t, e))

\* ------------------------------------------------------ the client's poller
\* A faulty variant: a FAILED job is waited for like a running one.
PollOutcomeMut(found, r) ==
    IF ~found THEN "RpcError"
    ELSE IF r.status = 3
         THEN (IF r.output_hash = "" THEN "NoOutputHash" ELSE "Ok")
         ELSE "Waiting"
\* poll_for_completion: what one iteration makes of the get_job_status call:
\* an Err reply ends the poller through `?`; status 3 returns the output hash
\* or, when it is empty, an error; status 4 is an error; any other status
\* goes on to the next iteration.
PollOutcome(found, r) ==
    IF ~found THEN "RpcError"
    ELSE IF r.status = 3
         THEN (IF r.output_hash = "" THEN "NoOutputHash" ELSE "Ok")
         ELSE IF r.status = 4 THEN "JobFailed"
              ELSE "Waiting"

\* compile_distributed calls poll_for_completion for job j.
PollStart(j) ==
    /\ poll.pc = "idle"
    /\ poll' = [poll EXCEPT !.pc = "polling", !.job_id = j]
    /\ last' = Step("PollStart", j, "OK", TRUE, "-")
    /\ UNCHANGED <<now, workers, jobs, submits, ncalls, tasks, procs, files, putops, execs, lk>>

\* poll_for_completion: one iteration of `for attempt in 0..60`: the sleep,
\* the GetJobStatus call, which the scheduler answers, and the match on the
\* status.  poll.attempt counts the calls made.
PollAttempt ==
    LET j == poll.job_id
        found == j \in DOMAIN jobs
        r == IF found THEN GetJobStatus(j)
             ELSE [job_id |-> j, status |-> 0, output_hash |-> "", error |-> "",
                   assigned_worker |-> ""]
        out == PollOutcome(found, r)
    IN  /\ poll.pc = "polling"
        /\ poll.attempt < PollLimit
        /\ poll' = [poll EXCEPT !.attempt = @ + 1,
                                !.pc = IF out = "Waiting" THEN "polling" ELSE "done",
                                !.result = IF out = "Waiting" THEN "-" ELSE out,
                                !.output_hash = IF out = "Ok" THEN r.output_hash ELSE ""]
        /\ last' = [Step("Poll", j, IF found THEN "OK" ELSE "NotFound", found, "-")
                       EXCEPT !.n = r.status, !.hash = r.output_hash]
        /\ UNCHANGED <<now, workers, jobs, submits, ncalls, tasks, procs, files, putops, execs, lk>>

\* poll_for_completion: the GetJobStatus call of an iteration fails in
\* transport and `?` returns the error.
PollRpcErr ==
    /\ poll.pc = "polling"
    /\ poll.attempt < PollLimit
    /\ poll' = [poll EXCEPT !.attempt = @ + 1, !.pc = "done", !.result = "RpcError"]
    /\ last' = [Step("Poll", poll.job_id, "Unavailable", FALSE, "-")
                   EXCEPT !.hash = ""]
    /\ UNCHANGED <<now, workers, jobs, submits, ncalls, tasks, procs, files, putops, execs, lk>>

\* poll_for_completion: the loop has run PollLimit iterations and the
\* function bails with "Job timeout after 60 seconds".
PollTimeout ==
    /\ poll.pc = "polling"
    /\ poll.attempt = PollLimit
    /\ poll' = [poll EXCEPT !.pc = "done", !.result = "Timeout"]
    /\ last' = Step("PollTimeout", poll.job_id, "OK", FALSE, "-")
    /\ UNCHANGED <<now, workers, jobs, submits, ncalls, tasks, procs, files, putops, execs, lk>>

\* The poller against the scheduler's job table: jobs are submitted and
\* their results reported (a report may carry an empty output hash) while
\* the poller runs.
NextP ==
    \/ \E j \in JobIds, i \in InputHashes, ty \in JobTypes, m \in MetadataMaps :
          SubmitInsert(j, i, ty, m)
    \/ \E j \in JobIds : SubmitAssign(j)
    \/ \E j \in JobIds, s \in BOOLEAN, h \in {"h1", ""} : ReportJobResult(j, s, h)
    \/ \E j \in JobIds : PollStart(j)
    \/ PollAttempt
    \/ PollRpcErr
    \/ PollTimeout

\* The poller's task is scheduled: its next iteration, or the return after
\* the last one, is eventually taken.  A failure of the transport is not
\* bound to happen.
SpecP ==
    /\ Init
    /\ [][NextP]_vars
    /\ WF_vars(PollAttempt \/ PollTimeout)

Next ==
    \/ Tick
    \/ \E w \in WorkerIds, a \in Addresses, cap \in Capacities, l \in LabelMaps :
          RegisterWorker(w, a, cap, l)
    \/ \E w \in WorkerIds, n \in 0..MaxReported : Heartbeat(w, n)
    \/ \E j \in JobIds, i \in InputHashes, ty \in JobTypes, m \in MetadataMaps :
          SubmitInsert(j, i, ty, m)
    \/ \E j \in JobIds : SubmitAssign(j)
    \/ \E t \in BagToSet(tasks) : DispatchSetRunning(t)
    \/ \E t \in BagToSet(tasks), ok \in BOOLEAN : DispatchRpcOk(t, ok)
    \/ \E t \in BagToSet(tasks) : DispatchRpcErr(t)
    \/ \E j \in JobIds, s \in BOOLEAN, h \in Hashes : ReportJobResult(j, s, h)
    \/ ListWorkers

Spec == Init /\ [][Next]_vars

\* The scheduler when the clients' job_ids are unique: SubmitJob is called
\* with a job_id only when no record has it (records are never removed).
NextU ==
    \/ Tick
    \/ \E w \in WorkerIds, a \in Addresses, cap \in Capacities, l \in LabelMaps :
          RegisterWorker(w, a, cap, l)
    \/ \E w \in WorkerIds, n \in 0..MaxReported : Heartbeat(w, n)
    \/ \E j \in JobIds \ DOMAIN jobs, i \in InputHashes, ty \in JobTypes,
         m \in MetadataMaps :
          SubmitInsert(j, i, ty, m)
    \/ \E j \in JobIds : SubmitAssign(j)
    \/ \E t \in BagToSet(tasks) : DispatchSetRunning(t)
    \/ \E t \in BagToSet(tasks), ok \in BOOLEAN : DispatchRpcOk(t, ok)
    \/ \E t \in BagToSet(tasks) : DispatchRpcErr(t)
    \/ \E j \in JobIds, s \in BOOLEAN, h \in Hashes : ReportJobResult(j, s, h)
    \/ ListWorkers

SpecU == Init /\ [][NextU]_vars

\* The scheduler with its two read-only RPCs.
NextR ==
    \/ Next
    \/ \E j \in JobIds : GetJobStatusRpc(j)
    \/ \E limit \in 0..MaxLimit : ListJobsRpc(limit)

SpecR == Init /\ [][NextR]_vars

\* ------------------------------------------------------------------ claims
\* No SubmitJob handler and no dispatch task is in flight.
Quiescent ==
    /\ tasks = EmptyBag
    /\ \A j \in JobIds : submits[j].pc = "idle"

\* Worker w is registered with a heartbeat younger than T_dead and a free slot.
Eligible(w) ==
    /\ w \in DOMAIN workers
    /\ now - workers[w].last_heartbeat < T_dead
    /\ workers[w].active_jobs < workers[w].capacity

\* The edges of the job lifecycle.
StatusEdges ==
    {<<Pending, Assigned>>, <<Assigned, Running>>, <<Running, Completed>>,
     <<Running, Failed>>, <<Assigned, Failed>>}

\* C1: every change of a job's status follows an edge of PENDING -> ASSIGNED ->
\* RUNNING -> {COMPLETED, FAILED} or ASSIGNED -> FAILED; the status never moves
\* backward and never leaves COMPLETED or FAILED.
C1_StatusMonotone ==
    [][\A j \in DOMAIN jobs :
          jobs'[j].status # jobs[j].status
          => <<jobs[j].status, jobs'[j].status>> \in StatusEdges]_vars

\* C2: a ReportJobResult for a job that is already COMPLETED or FAILED changes
\* neither the job table nor the registry, and is acknowledged.
C2_DuplicateReportNoop ==
    [][(last'.op = "ReportJobResult" /\ last'.prev \in Terminal)
       => /\ jobs' = jobs
          /\ workers' = workers
          /\ last'.code = "OK"]_vars

\* C3: when nothing is in flight, every registered worker's active_jobs equals
\* the number of ASSIGNED or RUNNING jobs assigned to it.
C3_ActiveJobsMatch ==
    Quiescent
    => \A w \in DOMAIN workers :
          workers[w].active_jobs = Cardinality(ActiveOn(jobs, w))

\* C4: the number of ASSIGNED or RUNNING jobs of a registered worker never
\* exceeds its capacity.
C4_WithinCapacity ==
    \A w \in DOMAIN workers : Cardinality(ActiveOn(jobs, w)) <= workers[w].capacity

\* C5: a step that makes a job ASSIGNED picks a worker that is in the registry
\* before and after the step, whose heartbeat is younger than T_dead and whose
\* active_jobs is below its capacity; and an assignment pass leaves no worker
\* in the registry whose heartbeat is older than T_dead.
C5_AssignedToLiveWorker ==
    [][/\ \A j \in DOMAIN jobs :
            (jobs[j].status # Assigned /\ jobs'[j].status = Assigned)
            => LET w == jobs'[j].assigned_worker
               IN  /\ Eligible(w)
                   /\ w \in DOMAIN workers'
                   /\ workers'[w].active_jobs <= workers'[w].capacity
       /\ last'.op = "SubmitJob"
            => \A w \in DOMAIN workers' : now - workers'[w].last_heartbeat <= T_dead]_vars

\* C5, witness: a pass has just assigned a job to a worker that is registered.
C5_Witness ==
    /\ last.op = "SubmitJob"
    /\ jobs[last.id].status = Assigned
    /\ jobs[last.id].assigned_worker \in DOMAIN workers
    /\ workers[jobs[last.id].assigned_worker].active_jobs >= 1

\* C6 as stated: if a worker w was eligible and no other job was PENDING when
\* SubmitJob(j) was called, then when SubmitJob(j) returns j has left PENDING
\* and its assigned_worker is w.
C6_AssignedToCallersWorker ==
    [][\A j \in JobIds :
          (last'.op = "SubmitJob" /\ last'.id = j)
          => \A w \in submits[j].eligAtCall :
                /\ jobs'[j].status # Pending
                /\ jobs'[j].assigned_worker = w]_vars

\* C6 as amended: if j is the only PENDING job and some worker is eligible when
\* the assignment pass of SubmitJob(j) runs, then when SubmitJob(j) returns j is
\* ASSIGNED and its assigned_worker is one of the workers that were eligible.
C6_AssignedWhenAvailable ==
    [][\A j \in JobIds :
          (/\ last'.op = "SubmitJob" /\ last'.id = j
           /\ PendingJobs(jobs) = {j}
           /\ \E w \in WorkerIds : Eligible(w))
          => /\ jobs'[j].status = Assigned
             /\ Eligible(jobs'[j].assigned_worker)]_vars

\* C6, witness: SubmitJob(j) has just returned with j ASSIGNED to a registered
\* worker and no job left PENDING.
C6_Witness ==
    /\ last.op = "SubmitJob"
    /\ jobs[last.id].status = Assigned
    /\ jobs[last.id].assigned_worker \in DOMAIN workers
    /\ PendingJobs(jobs) = {}

\* Job j is as SubmitJob inserted it.
FreshPending(js, j) ==
    /\ j \in DOMAIN js
    /\ js[j].status = Pending
    /\ js[j].assigned_worker = NoWorker
    /\ js[j].output_hash = NoHash

\* C7: SubmitJob inserts the job PENDING with no worker and no output hash and
\* replies success; with no worker registered its assignment pass changes no
\* job, so the job is still PENDING when SubmitJob returns, GetJobStatus gives
\* status 0 for it and every ListJobs(10) reply contains it.
C7_SubmitNoWorker ==
    [][\A j \in JobIds :
          /\ (last'.op = "SubmitInsert" /\ last'.id = j)
             => /\ FreshPending(jobs', j)
                /\ GetJobStatus(j)'.status = 0
          /\ (last'.op = "SubmitJob" /\ last'.id = j)
             => /\ last'.code = "OK" /\ last'.success
                /\ j \in DOMAIN jobs'
                /\ \A r \in ListJobs(10)' : \E i \in DOMAIN r : r[i].job_id = j
                /\ DOMAIN workers = {}
                   => /\ jobs' = jobs /\ tasks' = tasks
                      /\ FreshPending(jobs, j)
                         => /\ FreshPending(jobs', j)
                            /\ GetJobStatus(j)'.status = 0
                            /\ GetJobStatus(j)'.assigned_worker = ""
                            /\ GetJobStatus(j)'.output_hash = ""]_vars

\* C7, witness: SubmitJob has just returned while no worker is registered, and
\* its job is PENDING.
C7_Witness ==
    /\ last.op = "SubmitJob" /\ last.code = "OK"
    /\ DOMAIN workers = {}
    /\ FreshPending(jobs, last.id)
    /\ GetJobStatus(last.id).status = 0

\* C8: ReportJobResult on a RUNNING job is acknowledged, sets COMPLETED and the
\* reported output_hash (success) or FAILED without writing output_hash
\* (failure), sets completed_at to now, lowers the active_jobs of the job's
\* worker, if registered, by one but not below zero, and changes no other job
\* and no other worker.
C8_ReportOnRunning ==
    [][\A j \in DOMAIN jobs :
          (last'.op = "ReportJobResult" /\ last'.id = j /\ jobs[j].status = Running)
          => LET w == jobs[j].assigned_worker
             IN  /\ last'.code = "OK"
                 /\ last'.success
                    => /\ jobs'[j].status = Completed
                       /\ jobs'[j].output_hash = last'.hash
                 /\ ~last'.success
                    => /\ jobs'[j].status = Failed
                       /\ jobs'[j].output_hash = jobs[j].output_hash
                 /\ jobs'[j].completed_at = now
                 /\ jobs'[j].assigned_worker = w
                 /\ DOMAIN jobs' = DOMAIN jobs
                 /\ \A k \in DOMAIN jobs \ {j} : jobs'[k] = jobs[k]
                 /\ DOMAIN workers' = DOMAIN workers
                 /\ \A v \in DOMAIN workers :
                       IF v = w
                       THEN /\ workers'[v].active_jobs >= 0
                            /\ workers'[v].active_jobs =
                                 (IF workers[v].active_jobs > 0
                                  THEN workers[v].active_jobs - 1 ELSE 0)
                            /\ workers'[v] =
                                 [workers[v] EXCEPT !.active_jobs = workers'[v].active_jobs]
                       ELSE workers'[v] = workers[v]]_vars

\* C8, witness: a successful report on a RUNNING job of a registered worker has
\* just been taken.
C8_Witness ==
    /\ last.op = "ReportJobResult" /\ last.prev = Running /\ last.success
    /\ jobs[last.id].status = Completed
    /\ jobs[last.id].output_hash = last.hash
    /\ jobs[last.id].completed_at = now
    /\ jobs[last.id].assigned_worker \in DOMAIN workers

\* C9: GetJobStatus returns a non-empty error for a FAILED job and an empty one
\* for every other status.
C9_ErrorIffFailed ==
    \A j \in DOMAIN jobs : (GetJobStatus(j).error # "") <=> (jobs[j].status = Failed)

\* C10: ReportJobResult for a job_id that is not in the job table replies
\* NotFound and changes neither the job table nor the registry.
C10_ReportUnknown ==
    [][(last'.op = "ReportJobResult" /\ last'.id \notin DOMAIN jobs)
       => /\ last'.code = "NotFound"
          /\ jobs' = jobs
          /\ workers' = workers
          /\ tasks' = tasks]_vars

\* C10, witness: a report for an unknown job has just been refused while a
\* worker has active jobs.
C10_Witness ==
    /\ last.op = "ReportJobResult" /\ last.code = "NotFound"
    /\ last.id \notin DOMAIN jobs
    /\ \E w \in DOMAIN workers : workers[w].active_jobs >= 1

\* C11: Heartbeat(w, n) for a registered worker sets that worker's
\* last_heartbeat to now and its active_jobs to n and changes nothing else; for
\* a worker that is not in the registry it replies NotFound, creates no record
\* and changes no state.
C11_HeartbeatLastWriterWins ==
    [][\A w \in WorkerIds :
          (last'.op = "Heartbeat" /\ last'.id = w)
          => /\ jobs' = jobs /\ tasks' = tasks /\ submits' = submits /\ now' = now
             /\ IF w \in DOMAIN workers
                THEN /\ last'.code = "OK"
                     /\ DOMAIN workers' = DOMAIN workers
                     /\ workers'[w] = [workers[w] EXCEPT !.last_heartbeat = now,
                                                         !.active_jobs = last'.n]
                     /\ \A v \in DOMAIN workers \ {w} : workers'[v] = workers[v]
                ELSE /\ last'.code = "NotFound"
                     /\ workers' = workers]_vars

\* C11, witness: a heartbeat carrying active_jobs = 1 has just refreshed a
\* worker that registered earlier, while another worker is registered.
C11_Witness ==
    /\ last.op = "Heartbeat" /\ last.code = "OK" /\ last.n = 1
    /\ now > 0
    /\ workers[last.id].last_heartbeat = now
    /\ workers[last.id].active_jobs = 1
    /\ \E v \in DOMAIN workers : v # last.id /\ workers[v].last_heartbeat < now

\* C12: a worker process that is running and is not in the registry (its
\* Heartbeat is answered NotFound) registers again: it is eventually in the
\* registry.
C12_WorkerReregisters ==
    \A w \in WorkerIds :
        (procs[w].main = "serve" /\ w \notin DOMAIN workers) ~> (w \in DOMAIN workers)

\* C13: RegisterWorker replies success and inserts, or overwrites the record of
\* that worker_id with, a record holding the request's address, capacity and
\* labels, active_jobs = 0 and last_heartbeat = now; it changes no job record
\* and no other worker's record.
C13_RegisterOverwrites ==
    [][\A w \in WorkerIds :
          (last'.op = "RegisterWorker" /\ last'.id = w)
          => /\ last'.code = "OK" /\ last'.success
             /\ DOMAIN workers' = DOMAIN workers \cup {w}
             /\ workers'[w].worker_id = w
             /\ workers'[w].address \in Addresses
             /\ workers'[w].capacity = last'.n
             /\ workers'[w].labels \in LabelMaps
             /\ workers'[w].active_jobs = 0
             /\ workers'[w].last_heartbeat = now
             /\ \A v \in DOMAIN workers \ {w} : workers'[v] = workers[v]
             /\ jobs' = jobs /\ tasks' = tasks /\ submits' = submits]_vars

\* C13, witness: RegisterWorker has just overwritten the record of a worker
\* that has a job ASSIGNED or RUNNING, while another worker is registered.
C13_Witness ==
    /\ last.op = "RegisterWorker" /\ last.n = 2
    /\ workers[last.id].active_jobs = 0
    /\ workers[last.id].capacity = 2
    /\ workers[last.id].last_heartbeat = now
    /\ ActiveOn(jobs, last.id) # {}
    /\ DOMAIN workers = WorkerIds

C15_ListJobsSortedLimited ==
    [][last'.op = "ListJobs"
       => /\ jobs' = jobs /\ workers' = workers /\ tasks' = tasks
          /\ submits' = submits /\ now' = now
          /\ ListJobs(last'.n) # {}
          /\ \A r \in ListJobs(last'.n) :
                LET ids == {r[i].job_id : i \in DOMAIN r}
                IN  /\ ids \subseteq DOMAIN jobs
                    /\ \A i \in DOMAIN r : r[i] = JobInfo(r[i].job_id)
                    /\ \A a, b \in DOMAIN r :
                          a < b => /\ r[a].job_id # r[b].job_id
                                   /\ r[a].submitted_at >= r[b].submitted_at
                    /\ last'.n = 0 => ids = DOMAIN jobs
                    /\ last'.n > 0
                       => /\ Len(r) <= last'.n
                          /\ Len(r) = Min(last'.n, Cardinality(DOMAIN jobs))
                          /\ \A j \in DOMAIN jobs \ ids : \A i \in DOMAIN r :
                                r[i].submitted_at >= jobs[j].submitted_at]_vars

\* C15, witness: ListJobs(1) has just been answered while the table holds two
\* jobs submitted at different times.
C15_Witness ==
    /\ last.op = "ListJobs" /\ last.n = 1
    /\ DOMAIN jobs = JobIds
    /\ jobs["j1"].submitted_at < jobs["j2"].submitted_at
    /\ \A r \in ListJobs(1) : Len(r) = 1 /\ r[1].job_id = "j2"

\* C16: no step removes a job record and only SubmitJob adds one, so the job
\* table holds exactly the jobs that were submitted; GetJobStatus(j) replies
\* NotFound exactly when j is not in the table (was never submitted) and
\* otherwise a snapshot of j's record, and it changes no state.
C16_JobsNeverRemoved ==
    [][/\ DOMAIN jobs \subseteq DOMAIN jobs'
       /\ \A j \in DOMAIN jobs' \ DOMAIN jobs : last'.op = "SubmitInsert" /\ last'.id = j
       /\ last'.op \in {"SubmitInsert", "SubmitJob"} => last'.id \in DOMAIN jobs'
       /\ \A j \in JobIds :
             (last'.op = "GetJobStatus" /\ last'.id = j)
             => /\ jobs' = jobs /\ workers' = workers /\ tasks' = tasks
                /\ submits' = submits /\ now' = now
                /\ (last'.code = "NotFound") <=> (j \notin DOMAIN jobs)
                /\ j \in DOMAIN jobs
                   => /\ last'.code = "OK"
                      /\ GetJobStatus(j).job_id = j
                      /\ GetJobStatus(j).status = StatusToI32(jobs[j].status)
                      /\ GetJobStatus(j).output_hash =
                            (IF jobs[j].output_hash = NoHash THEN ""
                             ELSE jobs[j].output_hash)
                      /\ GetJobStatus(j).assigned_worker =
                            (IF jobs[j].assigned_worker = NoWorker THEN ""
                             ELSE jobs[j].assigned_worker)]_vars

\* C16, witness: GetJobStatus has just returned the snapshot of a job that
\* reached COMPLETED or FAILED and whose worker is no longer registered.
C16_Witness ==
    /\ last.op = "GetJobStatus" /\ last.code = "OK"
    /\ jobs[last.id].status \in Terminal
    /\ jobs[last.id].assigned_worker # NoWorker
    /\ jobs[last.id].assigned_worker \notin DOMAIN workers
    /\ GetJobStatus(last.id).status \in {3, 4}

\* C17: the ExecuteJob request a dispatch task sends for a job carries the
\* job's job_id, input_hash and job_type and exactly the metadata map that
\* SubmitJob stored for the job.
C17_RequestCarriesMetadata ==
    \A t \in BagToSet(tasks) :
        (t.pc = "rpc" /\ t.job \in DOMAIN jobs)
        => /\ ExecuteJobRequest(t).job_id = jobs[t.job].job_id
           /\ ExecuteJobRequest(t).input_hash = jobs[t.job].input_hash
           /\ ExecuteJobRequest(t).job_type = jobs[t.job].job_type
           /\ ExecuteJobRequest(t).metadata = jobs[t.job].metadata

\* C18: when the dispatch RPC of a task fails, the task's job, if in the table,
\* becomes FAILED with completed_at = now and is otherwise unchanged; the worker
\* the job was dispatched to, if registered, has its active_jobs lowered by one
\* but not below zero; no worker leaves the registry and no other job or worker
\* changes.
C18_DispatchFailure ==
    [][\A t \in BagToSet(tasks) :
          (/\ last'.op = "DispatchRpcErr" /\ last'.id = t.job
           /\ t.pc = "rpc" /\ tasks' = tasks (-) SetToBag({t}))
          => /\ DOMAIN jobs' = DOMAIN jobs
             /\ DOMAIN workers' = DOMAIN workers
             /\ \A j \in DOMAIN jobs :
                   IF j = t.job
                   THEN /\ jobs'[j].status = Failed
                        /\ jobs'[j].completed_at = now
                        /\ jobs'[j].completed_at # NoTime
                        /\ jobs'[j] = [jobs[j] EXCEPT !.status = Failed,
                                                      !.completed_at = now]
                   ELSE jobs'[j] = jobs[j]
             /\ \A w \in DOMAIN workers :
                   IF w = t.worker
                   THEN /\ workers'[w].active_jobs >= 0
                        /\ workers'[w].active_jobs =
                             (IF workers[w].active_jobs > 0
                              THEN workers[w].active_jobs - 1 ELSE 0)
                        /\ workers'[w] =
                             [workers[w] EXCEPT !.active_jobs = workers'[w].active_jobs]
                   ELSE workers'[w] = workers[w]]_vars

\* C18, witness: a dispatch has just failed; its job is FAILED and its worker
\* is still registered with its slot given back.
C18_Witness ==
    /\ last.op = "DispatchRpcErr"
    /\ jobs[last.id].status = Failed
    /\ jobs[last.id].completed_at = now
    /\ jobs[last.id].assigned_worker \in DOMAIN workers
    /\ workers[jobs[last.id].assigned_worker].active_jobs = 0

\* C19: the step in which ExecuteJob returns without transport error changes
\* no job and no worker, whatever success flag the response carries; and a
\* job's output_hash is changed by no step other than ReportJobResult and the
\* insert of SubmitJob.
C19_ResponseChangesNothing ==
    [][/\ last'.op = "DispatchRpcOk" => (jobs' = jobs /\ workers' = workers)
       /\ \A j \in DOMAIN jobs \cap DOMAIN jobs' :
             jobs'[j].output_hash # jobs[j].output_hash
             => last'.op \in {"ReportJobResult", "SubmitInsert"}]_vars

\* C19, witness: ExecuteJob has just returned a response with success = false
\* for a job that is RUNNING on a registered worker.
C19_Witness ==
    /\ last.op = "DispatchRpcOk" /\ ~last.success
    /\ jobs[last.id].status = Running
    /\ jobs[last.id].output_hash = NoHash
    /\ jobs[last.id].assigned_worker \in DOMAIN workers
    /\ workers[jobs[last.id].assigned_worker].active_jobs >= 1

\* C20: in every reachable state a job has an output_hash if and only if it is
\* COMPLETED, and a completed_at if and only if it is COMPLETED or FAILED.
C20_HashIffCompleted ==
    \A j \in DOMAIN jobs :
        /\ (jobs[j].output_hash # NoHash) <=> (jobs[j].status = Completed)
        /\ (jobs[j].completed_at # NoTime) <=> (jobs[j].status \in Terminal)

\* C30: an assignment pass makes ASSIGNED exactly min(P, W) of the P PENDING
\* jobs, W being the number of registered workers with a heartbeat younger than
\* T_dead and active_jobs < capacity (so at least one if there is a PENDING job
\* and such a worker); the assigned jobs go to distinct such workers, each of
\* which has its active_jobs raised by one; one dispatch task is added per
\* assignment; every other job and every other worker the pass keeps in the
\* registry is unchanged.
C30_PassAssignsMin ==
    [][last'.op = "SubmitJob"
       => LET P == PendingJobs(jobs)
              W == {w \in WorkerIds : Eligible(w)}
              kept == Evict(workers, now)
              got == {j \in P : jobs'[j].status = Assigned}
              used == {jobs'[j].assigned_worker : j \in got}
          IN  /\ Cardinality(got) = Min(Cardinality(P), Cardinality(W))
              /\ (P # {} /\ W # {}) => got # {}
              /\ used \subseteq W
              /\ Cardinality(used) = Cardinality(got)
              /\ DOMAIN jobs' = DOMAIN jobs
              /\ \A j \in DOMAIN jobs :
                    IF j \in got
                    THEN jobs'[j] = [jobs[j] EXCEPT !.status = Assigned,
                                        !.assigned_worker = jobs'[j].assigned_worker]
                    ELSE jobs'[j] = jobs[j]
              /\ DOMAIN workers' = DOMAIN kept
              /\ \A w \in DOMAIN kept :
                    IF w \in used
                    THEN workers'[w] = [kept[w] EXCEPT !.active_jobs = @ + 1]
                    ELSE workers'[w] = kept[w]
              /\ tasks' = tasks (+) SetToBag(
                    {[job |-> j, input_hash |-> jobs[j].input_hash,
                      job_type |-> jobs[j].job_type,
                      worker |-> jobs'[j].assigned_worker,
                      worker_addr |-> kept[jobs'[j].assigned_worker].address,
                      pc |-> "start"] : j \in got})]_vars

\* C30, witness: a pass has just returned and both jobs are ASSIGNED, to two
\* different workers, with one dispatch task each.
C30_Witness ==
    /\ last.op = "SubmitJob"
    /\ \A j \in JobIds : j \in DOMAIN jobs /\ jobs[j].status = Assigned
    /\ jobs["j1"].assigned_worker # jobs["j2"].assigned_worker
    /\ \A w \in WorkerIds : w \in DOMAIN workers /\ workers[w].active_jobs = 1
    /\ BagCardinality(tasks) = 2

\* C21: every successful get(d) returns bytes whose digest is d, also while a
\* put for d is under way.
C21_GetMatchesDigest ==
    [][(last'.op = "Get" /\ last'.code = "OK")
       => compute_hash(last'.data) = last'.hash]_vars

\* C22: when a put(b) returns while no other put is under way, it returns the
\* digest of b, the blob is there and get of that digest gives b; the put has
\* not altered b's blob if it was stored already, and it alters no other blob.
C22_GetPutRoundTrip ==
    [][\A c \in CasClients :
          (/\ last'.op = "Put" /\ last'.code = "OK" /\ last'.id = c
           /\ \A d \in CasClients \ {c} : putops[d].pc = "idle")
          => LET b == last'.data
                 h == compute_hash(b)
             IN  /\ last'.hash = h
                 /\ Exists(files', h)
                 /\ GetCode(files', h) = "OK"
                 /\ GetBytes(files', h) = b
                 /\ \A q \in DOMAIN files \ {hash_to_path(h)} :
                       q \in DOMAIN files' /\ files'[q] = files[q]]_vars

\* C23: when a put of bytes b returns Ok after a put of the same bytes that ran
\* concurrently with it has returned Ok, and no other put is under way, both
\* have returned the digest of b and the blob stored under it is exactly b.
C23_ConcurrentPutsAgree ==
    [][\A c \in CasClients :
          (/\ last'.op = "Put" /\ last'.code = "OK" /\ last'.id = c
           /\ putops[c].peer
           /\ \A d \in CasClients \ {c} : putops[d].pc = "idle")
          => /\ last'.hash = compute_hash(last'.data)
             /\ GetCode(files', last'.hash) = "OK"
             /\ GetBytes(files', last'.hash) = last'.data]_vars

\* C24: when a put returns an error while no other put is under way, it
\* leaves no file under its digest that holds anything but the whole blob:
\* exists of the digest is false and get fails, unless the whole blob is
\* stored.
C24_FailedPutLeavesNothing ==
    [][\A c \in CasClients :
          (/\ last'.op = "Put" /\ last'.code = "Err" /\ last'.id = c
           /\ \A d \in CasClients \ {c} : putops[d].pc = "idle")
          => (Exists(files', last'.hash)
              => GetBytes(files', last'.hash) = last'.data)]_vars

\* C25: get of a digest for which no put has created a file replies NotFound and
\* exists of it replies false; neither call changes the store or a put under
\* way; and a file appears under a path only by the File::create of a put of
\* that digest.
C25_GetUnknownNotFound ==
    [][/\ \A q \in DOMAIN files' \ DOMAIN files :
             last'.op = "PutCreate" /\ q = hash_to_path(last'.hash)
       /\ DOMAIN files \subseteq DOMAIN files'
       /\ (last'.op = "Get" /\ hash_to_path(last'.hash) \notin DOMAIN files)
            => /\ last'.code = "NotFound"
               /\ files' = files /\ putops' = putops
       /\ (last'.op = "Exists" /\ hash_to_path(last'.hash) \notin DOMAIN files)
            => /\ ~last'.success /\ last'.code = "OK"
               /\ files' = files /\ putops' = putops
       /\ last'.op \in {"Get", "Exists"} => files' = files]_vars

\* C25, witness: a get has just been refused for a digest that has no file,
\* while another blob is stored.
C25_Witness ==
    /\ last.op = "Get" /\ last.code = "NotFound"
    /\ ~Exists(files, last.hash)
    /\ \E b \in Blobs : GetCode(files, compute_hash(b)) = "OK"
                         /\ GetBytes(files, compute_hash(b)) = b

\* The ExecuteJob RPCs in flight at worker w: received and not yet answered.
InFlight(w) ==
    Cardinality({e \in ExecIds : execs[e].pc # "idle" /\ execs[e].worker = w})

C27_ReportedIsInFlight ==
    [][/\ last'.op \in {"WorkerHeartbeat", "GetStatus"} => last'.n = InFlight(last'.id)
       /\ last'.op = "WorkerHeartbeat" =>
             last'.data[2] = (IF procs[last'.id].capacity > InFlight(last'.id)
                              THEN procs[last'.id].capacity - InFlight(last'.id)
                              ELSE 0)]_vars

\* C28: two executions that read the same input bytes for the same job type
\* give the same output hash, whichever workers ran them.
C28_OutputFunctionOfInput ==
    \A e1, e2 \in ExecIds :
        (/\ execs[e1].pc \in {"remove", "report", "respond"} /\ execs[e1].ok
         /\ execs[e2].pc \in {"remove", "report", "respond"} /\ execs[e2].ok
         /\ execs[e1].input = execs[e2].input
         /\ execs[e1].job_type = execs[e2].job_type)
        => execs[e1].output_hash = execs[e2].output_hash

\* C29: the poller always terminates.  Every iteration makes one GetJobStatus
\* call and at most PollLimit calls are made; the call that sees COMPLETED
\* with a non-empty output hash returns that hash; the call that sees FAILED,
\* or COMPLETED with an empty hash, or that fails, returns an error; a call
\* that sees another status goes on polling; and the timeout error is
\* returned after PollLimit calls that saw no terminal status and only then.
C29_PollerTerminates ==
    /\ [][(poll.pc = "polling" /\ poll' # poll) =>
            LET j == poll.job_id
                polled == poll'.attempt = poll.attempt + 1
                answered == polled /\ last'.code = "OK"
            IN  /\ poll'.attempt <= PollLimit
                /\ poll'.job_id = j
                /\ answered => j \in DOMAIN jobs
                /\ (answered /\ jobs[j].status = Completed
                             /\ jobs[j].output_hash \notin {NoHash, ""})
                      => /\ poll'.pc = "done" /\ poll'.result = "Ok"
                         /\ poll'.output_hash = jobs[j].output_hash
                /\ (answered /\ jobs[j].status = Completed
                             /\ jobs[j].output_hash \in {NoHash, ""})
                      => poll'.pc = "done" /\ poll'.result = "NoOutputHash"
                /\ (answered /\ jobs[j].status = Failed)
                      => poll'.pc = "done" /\ poll'.result = "JobFailed"
                /\ (answered /\ jobs[j].status \notin Terminal)
                      => poll'.pc = "polling"
                /\ (polled /\ ~answered)
                      => poll'.pc = "done" /\ poll'.result = "RpcError"
                /\ ~polled => /\ poll.attempt = PollLimit
                              /\ poll'.pc = "done" /\ poll'.result = "Timeout"
                /\ poll'.result = "Ok" <=> poll'.output_hash # ""]_vars
    /\ (poll.pc = "polling") ~> (poll.pc = "done")

\* C29 witness: the poller has returned the timeout error after PollLimit
\* calls, the job it polled being known to the scheduler and not terminal.
C29_Witness ==
    /\ poll.pc = "done"
    /\ poll.result = "Timeout"
    /\ poll.attempt = PollLimit
    /\ poll.job_id \in DOMAIN jobs
    /\ jobs[poll.job_id].status \notin Terminal

\* C33: a step that removes a worker from the registry is an assignment pass
\* or ListWorkers, the worker's heartbeat is older than T_dead, every worker
\* whose heartbeat is not older stays, and every job record that names the
\* removed worker is left exactly as it was (ListWorkers changes no job
\* record at all).
C33_EvictionKeepsJobs ==
    [][/\ \A w \in DOMAIN workers \ DOMAIN workers' :
            /\ last'.op \in {"SubmitJob", "ListWorkers"}
            /\ now - workers[w].last_heartbeat > T_dead
            /\ \A j \in DOMAIN jobs :
                  jobs[j].assigned_worker = w =>
                      j \in DOMAIN jobs' /\ jobs'[j] = jobs[j]
            /\ \A w2 \in DOMAIN workers :
                  now - workers[w2].last_heartbeat <= T_dead => w2 \in DOMAIN workers'
       /\ last'.op = "ListWorkers" => jobs' = jobs]_vars

\* C33 witness: ListWorkers has evicted, and a job that is ASSIGNED or
\* RUNNING names a worker that is no longer registered.
C33_Witness ==
    /\ last.op = "ListWorkers"
    /\ last.n >= 1
    /\ \E j \in DOMAIN jobs : /\ jobs[j].status \in {Assigned, Running}
                               /\ jobs[j].assigned_worker # NoWorker
                               /\ jobs[j].assigned_worker \notin DOMAIN workers

\* C35: a job that is ASSIGNED or RUNNING has an assigned_worker and a job
\* that is PENDING has none.
C35_AssignedWorkerSet ==
    \A j \in DOMAIN jobs :
        /\ jobs[j].status \in {Assigned, Running} => jobs[j].assigned_worker # NoWorker
        /\ jobs[j].status = Pending => jobs[j].assigned_worker = NoWorker

\* The dispatch tasks in flight for job j, each of which issues one
\* ExecuteJob RPC.
TasksFor(ts, j) == {t \in BagToSet(ts) : t.job = j}
NTasks(ts, j) == BagCardinality([t \in TasksFor(ts, j) |-> CopiesIn(t, ts)])

\* C34: with unique job_ids a job has at most one dispatch task, and so at
\* most one ExecuteJob RPC: a task is spawned for a job only by the step that
\* takes it from PENDING, with no assigned_worker, to ASSIGNED; the task goes
\* to the worker the record names; a job that has left PENDING never returns
\* to it and an assigned_worker once set never changes.
C34_AssignedOnce ==
    /\ [](\A j \in JobIds :
            /\ NTasks(tasks, j) <= 1
            /\ \A t \in TasksFor(tasks, j) :
                  /\ j \in DOMAIN jobs
                  /\ jobs[j].status # Pending
                  /\ jobs[j].assigned_worker = t.worker)
    /\ [][\A j \in DOMAIN jobs :
            /\ jobs[j].assigned_worker # NoWorker =>
                  jobs'[j].assigned_worker = jobs[j].assigned_worker
            /\ jobs[j].status # Pending => jobs'[j].status # Pending
            /\ NTasks(tasks', j) > NTasks(tasks, j) =>
                  /\ jobs[j].status = Pending
                  /\ jobs[j].assigned_worker = NoWorker
                  /\ jobs'[j].status = Assigned
                  /\ NTasks(tasks', j) = 1]_vars

\* C34 witness: two SubmitJob handlers run concurrently: the pass of one has
\* assigned both jobs and spawned their tasks while the pass of the other is
\* still to run.
C34_Witness ==
    /\ submits["j1"].pc = "inserted"
    /\ \A j \in JobIds : /\ j \in DOMAIN jobs
                          /\ jobs[j].status = Assigned
                          /\ NTasks(tasks, j) = 1
    /\ \E w \in DOMAIN workers : workers[w].active_jobs < workers[w].capacity

\* C38: a worker whose last heartbeat is at most H_beat seconds old, as it is
\* for a worker that sends one every H_beat seconds, is not evicted by an
\* assignment pass or by ListWorkers, and when it has a free slot it is
\* eligible: a pass that finds a PENDING job assigns one.
C38_PunctualWorkerEligible ==
    [][last'.op \in {"SubmitJob", "ListWorkers"} =>
         \A w \in DOMAIN workers :
            now - workers[w].last_heartbeat <= H_beat =>
               /\ w \in DOMAIN workers'
               /\ (/\ last'.op = "SubmitJob"
                   /\ workers[w].active_jobs < workers[w].capacity
                   /\ PendingJobs(jobs) # {})
                  => \E j \in PendingJobs(jobs) : jobs'[j].status = Assigned]_vars

\* C36: a job does not stay PENDING for ever while a worker is registered
\* with a heartbeat younger than T_dead and a free slot: it is assigned
\* without another SubmitJob.
C36_PendingEventuallyAssigned ==
    ~<>[](/\ "j1" \in DOMAIN jobs
          /\ jobs["j1"].status = Pending
          /\ submits["j1"].pc = "idle"
          /\ Eligible("w1"))

\* C37: a job that is ASSIGNED eventually is COMPLETED or FAILED.
C37_AssignedEventuallyTerminal ==
    ("j1" \in DOMAIN jobs /\ jobs["j1"].status = Assigned)
        ~> ("j1" \in DOMAIN jobs /\ jobs["j1"].status \in Terminal)

\* C40: when the worker's report completes a job the blob of the reported
\* output hash is in the CAS already, and every COMPLETED job has an
\* output_hash for which get succeeds.
C40_CompletedOutputInCas ==
    /\ [](\A j \in DOMAIN jobs :
            jobs[j].status = Completed =>
                /\ jobs[j].output_hash \notin {NoHash, ""}
                /\ Exists(files, jobs[j].output_hash)
                /\ GetCode(files, jobs[j].output_hash) = "OK")
    /\ [][(last'.op = "WorkerReport" /\ last'.code = "OK" /\ last'.success) =>
            /\ Exists(files, last'.hash)
            /\ jobs'[last'.prev].status = Completed
            /\ jobs'[last'.prev].output_hash = last'.hash]_vars

\* C40 witness: the worker's report has just completed the job.
C40_Witness ==
    /\ last.op = "WorkerReport"
    /\ last.code = "OK"
    /\ "j1" \in DOMAIN jobs
    /\ jobs["j1"].status = Completed
    /\ jobs["j1"].output_hash = last.hash

\* The scheduler's calls that are on the network: a dispatch task that is
\* connecting, has sent ExecuteJob and waits for the response, or has been
\* handed the transport's error.
DispatchOnNetwork(t) == t.pc \in {"rpc", "await", "failed"}

\* C31: the scheduler never performs network I/O while it holds its state
\* lock.  When the pass ends, with the tasks it spawned, the lock is free;
\* no dispatch task that is connecting, or that waits for the ExecuteJob
\* response or has got the transport's error, holds the lock; an ExecuteJob
\* request is sent, and its outcome received, with the lock not held by a
\* dispatch task; and a step a dispatch task takes under the lock changes
\* the job's status to RUNNING or to FAILED, releases the lock, and sends
\* nothing.
C31_NoNetworkUnderLock ==
    /\ [](\A t \in BagToSet(tasks) : DispatchOnNetwork(t) => lk.slock # "dispatch")
    /\ [][/\ last'.op = "SubmitJob" => lk'.slock = "free"
          /\ last'.op \in {"ExecuteJobRecv", "ExecuteJob", "DispatchErr"}
                => lk.slock # "dispatch" /\ lk'.slock # "dispatch"
          /\ lk.slock = "dispatch" /\ lk'.slock # "dispatch"
                => /\ lk'.slock = "free"
                   /\ last'.op \in {"DispatchSetRunning", "DispatchRpcErr"}
                   /\ execs' = execs
                   /\ \A j \in DOMAIN jobs :
                         jobs'[j].status # jobs[j].status
                            => jobs'[j].status \in {Running, Failed}]_vars

\* C31 witness: a dispatch task waits for the ExecuteJob response, its job
\* RUNNING, while the scheduler's lock is free.
C31_Witness ==
    \E t \in BagToSet(tasks) :
        /\ t.pc = "await"
        /\ jobs[t.job].status = Running
        /\ lk.slock = "free"

\* C32: the worker never holds its state lock while an RPC to the scheduler
\* is in flight: while a Heartbeat call is on its way or being handled, the
\* heartbeat task holds no guard of the worker's lock, and while
\* report_completion is, the execute_job call holds none.
C32_NoWorkerLockDuringRpc ==
    /\ procs["w1"].hb \in {"calling", "handling", "replied"} => "hb" \notin lk.wreaders
    /\ \A e \in ExecIds : execs[e].pc = "reporting" => lk.wwriter # e

\* C39: the protocol never deadlocks.  While a dispatch task waits for the
\* ExecuteJob response it does not hold the scheduler's lock; whoever
\* holds the lock can end its critical section at once, so the lock is
\* always released again; the worker's nested ReportJobResult call gets
\* through (or fails in transport) and the response reaches the task, which
\* ends.
C39_NoDeadlock ==
    /\ [](\A t \in BagToSet(tasks) : t.pc = "await" => lk.slock # "dispatch")
    /\ [](lk.slock # "free" => ENABLED SchedulerUnlock)
    /\ (lk.slock # "free") ~> (lk.slock = "free")
    /\ (\E t \in BagToSet(tasks) : t.pc = "await") ~> (BagToSet(tasks) = {})

\* C39 witness: the ReportJobResult handler holds the scheduler's lock
\* while the dispatch task waits for the ExecuteJob response of that job.
C39_Witness ==
    \E t \in BagToSet(tasks), e \in ExecIds :
        /\ t.pc = "await"
        /\ execs[e].pc = "reporting"
        /\ execs[e].job_id = t.job
        /\ lk.slock = "report"

====
